---------------------------- MODULE Spec2Model ----------------------------
(***************************************************************************)
(* Verification model of the flyer editor's canvas core:                   *)
(*   - geometry utilities of the template studio (clamp, clampRectToCanvas)*)
(*   - the undo/redo history hook (useCanvasHistory) as wired by           *)
(*     FabricCanvas                                                        *)
(*   - scene serialization and asset-failure recovery (canvasHelpers)      *)
(*   - the template studio's element geometry under edits, pointer         *)
(*     interaction, uploads, import and remote snapshots                   *)
(*   - the studio's synchronisation with the cloud document (studioCloud)  *)
(*   - the automatic placement of texts and images in zones (autoLayout)   *)
(*   - the editor page filling the canvas when it is ready (EditorPage)    *)
(* Each part has its own specification over the shared variable list; the  *)
(* variables of the other parts stay at their initial values.              *)
(***************************************************************************)
EXTENDS Integers, Sequences, FiniteSets, TLC

VARIABLES
    \* ---- geometry (clampRectToCanvas and resizeRectFromHandle applied to given input)
    rectIn,          \* the rect first handed to clampRectToCanvas
    rect,            \* the latest result (rectIn before the first call)
    prevRect,        \* the argument of the latest call
    bounds,          \* [w, h]: canvasWidth, canvasHeight of the call
    clampCalls,      \* number of applications so far
    drag,            \* [handle, deltaX, deltaY] of the latest resizeRectFromHandle call
    \* ---- the flyer canvas (fabric.Canvas)
    canvasObjs,      \* canvas.getObjects(): the scene, index 1 = backmost
    nextId,          \* next id crypto.randomUUID() hands out
    edits,           \* number of user edits so far
    \* ---- persistence of the scene (canvasHelpers, useCanvasSync)
    externalDoc,     \* the document the editor is opened with (savedCanvasJSON / template.canvasJSON)
    storedJSON,      \* useProjectStore.canvasJSON, written by useCanvasSync
    storedScene,     \* the scene storedJSON was serialized from
    lastCall,        \* outcome of the latest deserializeCanvas call, cleared by edits
    \* ---- undo / redo (useCanvasHistory, FabricCanvas)
    historyRef,      \* historyRef.current: the snapshots
    indexRef,        \* indexRef.current: 0-based cursor, -1 when empty
    isRestoringRef,  \* isRestoringRef.current
    loads,           \* loadFromJSON calls of undo / redo still in flight (their snapshots)
    mounted,         \* FabricCanvas's effect has registered the handlers
    restores,        \* number of restorations started so far
    script,          \* how far the calls so far follow Scenario, or ScenarioOff
    \* ---- the template studio (AdminTemplateStudioPage)
    templates,         \* the templates state
    activeTemplateId,  \* id of the template on the canvas
    selectedElementId, \* id of the selected element, NoId for null
    interaction,       \* the pointer interaction in progress, NoInteraction for null
    uploading,         \* what a running handleUploadTemplateImages call holds, or NoUpload
    studioIds,         \* next id createId() hands out
    studioSteps,       \* number of handler runs the user or another writer caused so far
    stepLimit,         \* how many of them the specification explores
    \* ---- the studio's cloud synchronisation (studioCloud)
    cloudReady,              \* the subscription has answered
    syncState,               \* the sync badge: connecting, synced, saving or error
    lastCloudSerializedRef,  \* lastCloudSerializedRef.current
    saveTimerRef,            \* saveTimerRef.current: a timer id, NoTimer for null
    pendingTimers,           \* window.setTimeout timers not yet fired or cleared
    saves,                   \* saveStudioTemplates calls in flight
    timerSeq,                \* number of timers window.setTimeout has handed out
    cloudDoc,                \* the templates field last handed to setDoc
    clearedTimers,           \* ids of the timers cleared while they were pending
    lastHandler,             \* the handler or callback that ran last
    inbox,                   \* snapshots the subscription has yet to deliver
    peer,                    \* a second studio page on the same document, or NoPeer
    \* ---- auto-layout (autoLayout)
    layoutRun,       \* the autoLayout call: NoRun, or its options and how far it is
    placements,      \* the boxes autoLayout has put on the canvas, in order
    \* ---- the editor page (EditorPage)
    pageReady,           \* the handleCanvasReady call: NoReady, or what it holds and how far it is
    \* ---- remote operations under a timeout (withTimeout of studioCloud)
    wrapped,         \* the withTimeout calls made so far, settled or not
    \* ---- one element with its style fields, edited and sanitized
    styled           \* [canvas, element, sanitized, edits]

geomVars == <<rectIn, rect, prevRect, bounds, clampCalls, drag>>

sceneVars == <<canvasObjs, nextId, edits>>

serialVars == <<externalDoc, storedJSON, storedScene, lastCall>>

histVars == <<historyRef, indexRef, isRestoringRef, loads, mounted, restores, script>>

syncVars ==
    <<cloudReady, syncState, lastCloudSerializedRef, saveTimerRef, pendingTimers, timerSeq,
      saves, cloudDoc, clearedTimers>>

studioVars ==
    <<templates, activeTemplateId, selectedElementId, interaction, uploading,
      studioIds, studioSteps, stepLimit, syncVars, lastHandler>>

netVars == <<inbox, peer>>

layoutVars == <<layoutRun, placements, pageReady>>

timeoutVars == <<wrapped, styled>>

vars ==
    <<geomVars, sceneVars, serialVars, histVars, studioVars, netVars, layoutVars, timeoutVars>>

(***************************************************************************)
(* Numbers.  JavaScript numbers are modelled as integers plus NaN.  NaN is *)
(* a sentinel below every value the model computes; Math.min and Math.max  *)
(* propagate it as in JavaScript.                                          *)
(***************************************************************************)
NaN == -1000000000

IsNaN(v) == v = NaN

MathMin(a, b) == IF IsNaN(a) \/ IsNaN(b) THEN NaN ELSE IF a < b THEN a ELSE b

MathMax(a, b) == IF IsNaN(a) \/ IsNaN(b) THEN NaN ELSE IF a > b THEN a ELSE b

\* a - b, a + b with NaN propagation
Sub(a, b) == IF IsNaN(a) \/ IsNaN(b) THEN NaN ELSE a - b

Add(a, b) == IF IsNaN(a) \/ IsNaN(b) THEN NaN ELSE a + b

MIN_ELEMENT_SIZE == 48

DEFAULT_CANVAS_WIDTH == 900

DEFAULT_CANVAS_HEIGHT == 1273

\* mutant of clamp: the NaN test is missing
clampNoNaNCheck(value, min, max) == MathMin(max, MathMax(min, value))

clamp(value, min, max) ==
    IF IsNaN(value) THEN min ELSE MathMin(max, MathMax(min, value))

\* mutant of clampRectToCanvas: x and y are clamped against the unclamped size
clampRectStaleSize(r, canvasWidth, canvasHeight) ==
    LET width  == clamp(r.width, MIN_ELEMENT_SIZE, canvasWidth)
        height == clamp(r.height, MIN_ELEMENT_SIZE, canvasHeight)
        x == clamp(r.x, 0, Sub(canvasWidth, r.width))
        y == clamp(r.y, 0, Sub(canvasHeight, r.height))
    IN  [x |-> x, y |-> y, width |-> width, height |-> height]

clampRectToCanvas(r, canvasWidth, canvasHeight) ==
    LET width  == clamp(r.width, MIN_ELEMENT_SIZE, canvasWidth)
        height == clamp(r.height, MIN_ELEMENT_SIZE, canvasHeight)
        x == clamp(r.x, 0, canvasWidth - width)
        y == clamp(r.y, 0, canvasHeight - height)
    IN  [x |-> x, y |-> y, width |-> width, height |-> height]

\* canvas sizes a template can have: sanitizeTemplate clamps canvasWidth to
\* [360, 2400] and canvasHeight to [480, 2400]; the presets are 900 x 1273
CANVAS_MIN_WIDTH == 360

CANVAS_MIN_HEIGHT == 480

CANVAS_MAX == 2400

CanvasSizes ==
    { [w |-> CANVAS_MIN_WIDTH, h |-> CANVAS_MIN_HEIGHT],
      [w |-> DEFAULT_CANVAS_WIDTH, h |-> DEFAULT_CANVAS_HEIGHT],
      [w |-> DEFAULT_CANVAS_HEIGHT, h |-> DEFAULT_CANVAS_WIDTH],
      [w |-> CANVAS_MAX, h |-> CANVAS_MAX] }

\* coordinates and sizes handed to clampRectToCanvas: NaN, negative, zero,
\* below the minimum size, inside, on the canvas edge, oversized
RectInputs == {NaN, -5000, -7, 0, 47, 300, 900, 1273, 5000}

MaxClampCalls == 2

\* values of the geometry variables while another part is explored
IdleRect == [x |-> 0, y |-> 0, width |-> MIN_ELEMENT_SIZE, height |-> MIN_ELEMENT_SIZE]

IdleBounds == [w |-> DEFAULT_CANVAS_WIDTH, h |-> DEFAULT_CANVAS_HEIGHT]

\* no resize has been computed
NoDrag == [handle |-> "none", deltaX |-> 0, deltaY |-> 0]

ClampRect ==
    /\ clampCalls < MaxClampCalls
    /\ prevRect' = rect
    /\ rect' = clampRectToCanvas(rect, bounds.w, bounds.h)
    /\ clampCalls' = clampCalls + 1
    /\ UNCHANGED <<rectIn, bounds, drag>>
    /\ UNCHANGED <<layoutVars, sceneVars, serialVars, histVars, studioVars, netVars, timeoutVars>>

(***************************************************************************)
(* Scene objects and documents.                                            *)
(* A live canvas object is [type, id, elementName, payload, objects, left]:*)
(* payload is the text of a textbox or the src of an image, objects the    *)
(* children of a group, left stands for the transform.  A document object  *)
(* is what canvas.toObject(props) emits for it: the standard fields plus   *)
(* the requested custom properties that are defined on the object.         *)
(* JSON.stringify / JSON.parse carry such plain data unchanged; a JSON     *)
(* string is therefore modelled by the value it parses to, plus the texts  *)
(* that do not parse.                                                      *)
(***************************************************************************)
\* id of an object that has no id property
NoId == 0

\* elementName of an object that has no elementName property
NoName == "undefined"

\* ids handed out by crypto.randomUUID() never collide with ids found in documents
UuidBase == 100

Uuid(n) == UuidBase + n

Srcs == {"ok.png", "broken.png"}

\* whether the browser can decode the image behind src
Decodable(src) == src = "ok.png"

canDecodeImage(src) == Decodable(src)

RECURSIVE ConcatAll(_)
ConcatAll(ss) == IF ss = <<>> THEN <<>> ELSE Head(ss) \o ConcatAll(Tail(ss))

\* mutant of SerializeProps: elementName is not exported
SerializePropsIdOnly == {"id"}

\* the custom properties handed to canvas.toObject
SerializeProps == {"id", "elementName"}

DefinedProp(o, p) == IF p = "id" THEN o.id # NoId ELSE o.elementName # NoName

RECURSIVE ToObject(_, _)
ToObject(o, props) ==
    [type    |-> o.type,
     payload |-> o.payload,
     left    |-> o.left,
     objects |-> [i \in 1..Len(o.objects) |-> ToObject(o.objects[i], props)],
     custom  |-> [p \in {q \in props : DefinedProp(o, q)} |-> o[p]]]

\* the document of a scene: JSON.stringify(canvas.toObject(props))
SceneDoc(objs, props) ==
    [shape    |-> "scene",
     objects  |-> [i \in 1..Len(objs) |-> ToObject(objs[i], props)],
     loadable |-> TRUE]

serializeCanvas(objs) == SceneDoc(objs, SerializeProps)

\* the live object fabric builds from a document object
RECURSIVE Enliven(_)
Enliven(d) ==
    [type        |-> d.type,
     id          |-> IF "id" \in DOMAIN d.custom THEN d.custom.id ELSE NoId,
     elementName |-> IF "elementName" \in DOMAIN d.custom THEN d.custom.elementName ELSE NoName,
     payload     |-> d.payload,
     objects     |-> [i \in 1..Len(d.objects) |-> Enliven(d.objects[i])],
     left        |-> d.left]

\* the object types the library has a class for
KnownTypes == {"image", "textbox", "rect", "group"}

\* a document object loads when every image in it decodes and every object
\* in it is of a known type
RECURSIVE ObjLoads(_)
ObjLoads(d) ==
    IF d.type = "image"
    THEN Decodable(d.payload)
    ELSE /\ d.type \in KnownTypes
         /\ \A i \in 1..Len(d.objects) : ObjLoads(d.objects[i])

\* canvas.loadFromJSON: [ok, objs]; a document without an object list loads
\* (as an empty scene) or fails as its loadable field says
loadFromJSON(doc) ==
    IF doc.shape = "scene"
    THEN IF \A i \in 1..Len(doc.objects) : ObjLoads(doc.objects[i])
         THEN [ok |-> TRUE, objs |-> [i \in 1..Len(doc.objects) |-> Enliven(doc.objects[i])]]
         ELSE [ok |-> FALSE, objs |-> <<>>]
    ELSE [ok |-> doc.shape = "noList" /\ doc.loadable, objs |-> <<>>]

\* mutant of sanitizeCanvasObject: an undecodable image is kept
RECURSIVE sanitizeKeepsBroken(_)
sanitizeKeepsBroken(obj) ==
    IF obj.type = "group"
    THEN <<[obj EXCEPT !.objects =
              ConcatAll([i \in 1..Len(obj.objects) |-> sanitizeKeepsBroken(obj.objects[i])])]>>
    ELSE <<obj>>

\* mutant of sanitizeCanvasObject: a group left without members is dropped
RECURSIVE sanitizeDropsEmptyGroups(_)
sanitizeDropsEmptyGroups(obj) ==
    IF obj.type = "image"
    THEN IF canDecodeImage(obj.payload) THEN <<obj>> ELSE <<>>
    ELSE IF obj.type = "group"
    THEN LET children == ConcatAll([i \in 1..Len(obj.objects) |->
                                      sanitizeDropsEmptyGroups(obj.objects[i])])
         IN  IF children = <<>> THEN <<>> ELSE <<[obj EXCEPT !.objects = children]>>
    ELSE <<obj>>

\* sanitizeCanvasObject: <<>> stands for null, <<obj>> for a kept object
RECURSIVE sanitizeCanvasObject(_)
sanitizeCanvasObject(obj) ==
    IF obj.type = "image"
    THEN IF canDecodeImage(obj.payload) THEN <<obj>> ELSE <<>>
    ELSE IF obj.type = "group"
    THEN <<[obj EXCEPT !.objects =
              ConcatAll([i \in 1..Len(obj.objects) |-> sanitizeCanvasObject(obj.objects[i])])]>>
    ELSE <<obj>>

\* errors a deserializeCanvas call can end with
NoError == "none"

FirstLoadError == "error of the first loadFromJSON"

RetryLoadError == "error of the retry loadFromJSON"

ParseSyntaxError == "SyntaxError of JSON.parse"

NullTypeError == "TypeError of parsed.objects"

\* deserializeCanvas: [raised, retried, loaded, objs]; objs is the scene put
\* on the canvas when loaded
deserializeCanvas(doc) ==
    LET first == loadFromJSON(doc)
        fallback == [doc EXCEPT !.objects =
                       ConcatAll([i \in 1..Len(doc.objects) |-> sanitizeCanvasObject(doc.objects[i])])]
        second == loadFromJSON(fallback)
    IN  IF first.ok
        THEN [raised |-> NoError, retried |-> FALSE, loaded |-> TRUE, objs |-> first.objs]
        ELSE IF doc.shape = "notJson"
        THEN [raised |-> ParseSyntaxError, retried |-> FALSE, loaded |-> FALSE, objs |-> <<>>]
        ELSE IF doc.shape = "null"
        THEN [raised |-> NullTypeError, retried |-> FALSE, loaded |-> FALSE, objs |-> <<>>]
        ELSE IF doc.shape # "scene"
        THEN [raised |-> FirstLoadError, retried |-> FALSE, loaded |-> FALSE, objs |-> <<>>]
        ELSE [raised |-> IF second.ok THEN NoError ELSE RetryLoadError,
              retried |-> TRUE, loaded |-> second.ok, objs |-> second.objs]

(***************************************************************************)
(* Scene edits (pure parts of the canvas operations).                      *)
(***************************************************************************)
\* addTextObject: a textbox with a fresh id, elementName from the text
NewText(n) ==
    [type |-> "textbox", id |-> Uuid(n), elementName |-> "text", payload |-> "text",
     objects |-> <<>>, left |-> 100]

\* addImageObject: an image with a fresh id and elementName 'Image'
NewImage(n, src) ==
    [type |-> "image", id |-> Uuid(n), elementName |-> "Image", payload |-> src,
     objects |-> <<>>, left |-> 100]

RemoveAt(s, i) == SubSeq(s, 1, i - 1) \o SubSeq(s, i + 1, Len(s))

\* the user drags object i: its left changes
Dragged(s, i) == [s EXCEPT ![i].left = IF s[i].left = 100 THEN 140 ELSE 100]

(***************************************************************************)
(* Documents the editor can be opened with.                                *)
(***************************************************************************)
\* no custom property
EmptyProps == [p \in {} |-> NoId]

DocObj(type, id, name, payload, children) ==
    [type |-> type, payload |-> payload, left |-> 16, objects |-> children,
     custom |-> [p \in {"id", "elementName"} |-> IF p = "id" THEN id ELSE name]]

DocImageOk == DocObj("image", 1, "Photo", "ok.png", <<>>)

DocImageBroken == DocObj("image", 2, "Lost", "broken.png", <<>>)

DocText == DocObj("textbox", 3, "Title", "text", <<>>)

\* an object saved without id and elementName
DocRect == [type |-> "rect", payload |-> "", left |-> 16, objects |-> <<>>, custom |-> EmptyProps]

DocGroup == DocObj("group", 4, "Group", "", <<DocImageOk, DocImageBroken>>)

DocNested == DocObj("group", 5, "Outer", "", <<DocObj("group", 6, "Inner", "", <<DocImageBroken>>), DocText>>)

DocObjs == {DocImageOk, DocImageBroken, DocText, DocRect, DocGroup, DocNested}

MaxDocObjs == 2

SceneDocs ==
    { [shape |-> "scene", objects |-> objs, loadable |-> TRUE] :
        objs \in UNION { [1..n -> DocObjs] : n \in 0..MaxDocObjs } }

\* text that is not JSON, the JSON value null, and JSON values without an
\* array under "objects"
OtherDocs ==
    { [shape |-> sh, objects |-> <<>>, loadable |-> ld] :
        sh \in {"notJson", "null"}, ld \in {FALSE} }
    \cup { [shape |-> "noList", objects |-> <<>>, loadable |-> ld] : ld \in BOOLEAN }

\* a group whose members all fail to decode
DocAllFail == DocObj("group", 7, "Lost", "", <<DocImageBroken, DocImageBroken>>)

\* groups nested three deep, with failing images at the second and third level
DocDeep ==
    DocObj("group", 8, "Top", "",
           <<DocImageBroken,
             DocObj("group", 9, "Middle", "",
                    <<DocText, DocObj("group", 10, "Bottom", "", <<DocImageBroken, DocImageOk>>)>>),
             DocRect>>)

\* an object of a type the library has no class for
DocWidget == DocObj("widget", 11, "Widget", "", <<>>)

PruneObjs == {DocImageOk, DocImageBroken, DocText, DocGroup, DocNested, DocAllFail, DocDeep, DocWidget}

MaxPruneObjs == 2

PruneDocs ==
    { [shape |-> "scene", objects |-> objs, loadable |-> TRUE] :
        objs \in UNION { [1..n -> PruneObjs] : n \in 0..MaxPruneObjs } }

ExternalDocs == SceneDocs \cup OtherDocs

NoDoc == [shape |-> "none", objects |-> <<>>, loadable |-> FALSE]

NoCall == [from |-> "none", raised |-> NoError, retried |-> FALSE, loaded |-> FALSE]

MaxEdits == 2

\* addTextObject on the editor canvas
SerAddText ==
    /\ edits < MaxEdits
    /\ canvasObjs' = Append(canvasObjs, NewText(nextId))
    /\ nextId' = nextId + 1
    /\ edits' = edits + 1
    /\ lastCall' = NoCall
    /\ UNCHANGED <<externalDoc, storedJSON, storedScene>>
    /\ UNCHANGED <<layoutVars, geomVars, histVars, studioVars, netVars, timeoutVars>>

\* addImageObject: FabricImage.fromURL rejects for an undecodable url and
\* nothing is added
SerAddImage(src) ==
    /\ edits < MaxEdits
    /\ canvasObjs' = IF Decodable(src) THEN Append(canvasObjs, NewImage(nextId, src))
                     ELSE canvasObjs
    /\ nextId' = IF Decodable(src) THEN nextId + 1 ELSE nextId
    /\ edits' = edits + 1
    /\ lastCall' = NoCall
    /\ UNCHANGED <<externalDoc, storedJSON, storedScene>>
    /\ UNCHANGED <<layoutVars, geomVars, histVars, studioVars, netVars, timeoutVars>>

\* Delete / Backspace on the active object
SerRemove(i) ==
    /\ edits < MaxEdits
    /\ canvasObjs' = RemoveAt(canvasObjs, i)
    /\ edits' = edits + 1
    /\ lastCall' = NoCall
    /\ UNCHANGED <<nextId, externalDoc, storedJSON, storedScene>>
    /\ UNCHANGED <<layoutVars, geomVars, histVars, studioVars, netVars, timeoutVars>>

\* the user drags an object
SerDrag(i) ==
    /\ edits < MaxEdits
    /\ canvasObjs' = Dragged(canvasObjs, i)
    /\ edits' = edits + 1
    /\ lastCall' = NoCall
    /\ UNCHANGED <<nextId, externalDoc, storedJSON, storedScene>>
    /\ UNCHANGED <<layoutVars, geomVars, histVars, studioVars, netVars, timeoutVars>>

\* useCanvasSync's timer: setCanvasJSON(serializeCanvas(canvas))
SyncToStore ==
    /\ storedJSON' = serializeCanvas(canvasObjs)
    /\ storedScene' = canvasObjs
    /\ UNCHANGED <<canvasObjs, nextId, edits, externalDoc, lastCall>>
    /\ UNCHANGED <<layoutVars, geomVars, histVars, studioVars, netVars, timeoutVars>>

\* the whole of deserializeCanvas(canvas, doc); a call that raises leaves the
\* canvas as it was
Deserialize(doc, from) ==
    LET r == deserializeCanvas(doc)
    IN  /\ canvasObjs' = IF r.loaded THEN r.objs ELSE canvasObjs
        /\ lastCall' = [from |-> from, raised |-> r.raised, retried |-> r.retried,
                        loaded |-> r.loaded]
        /\ UNCHANGED <<nextId, edits, externalDoc, storedJSON, storedScene>>
        /\ UNCHANGED <<layoutVars, geomVars, histVars, studioVars, netVars, timeoutVars>>

\* handleCanvasReady: deserializeCanvas(canvas, canvasJSON)
DeserializeStored ==
    /\ storedJSON # NoDoc
    /\ Deserialize(storedJSON, "store")

\* handleCanvasReady: deserializeCanvas(canvas, savedCanvasJSON) or template.canvasJSON
DeserializeExternal ==
    Deserialize(externalDoc, "external")

(***************************************************************************)
(* History (useCanvasHistory) as wired by FabricCanvas: saveState runs on  *)
(* mount and on every object:modified / object:added / object:removed.     *)
(* indexRef is 0-based as in the code: the current entry is                *)
(* historyRef[indexRef + 1].                                               *)
(***************************************************************************)
HISTORY_LIMIT == 50

\* the custom properties saveState hands to canvas.toObject
HistoryProps == {"id", "elementName"}

Snapshot(objs) == SceneDoc(objs, HistoryProps)

\* mutant of saveState: the redo branch is not removed before the push
saveStateKeepsFuture(h, restoring, objs) ==
    IF restoring THEN h
    ELSE LET pushed == Append(h.entries, Snapshot(objs))
         IN  IF Len(pushed) > HISTORY_LIMIT
             THEN [entries |-> Tail(pushed), index |-> Len(pushed) - 2]
             ELSE [entries |-> pushed, index |-> Len(pushed) - 1]

\* mutant of saveState: the history is not limited
saveStateUnlimited(h, restoring, objs) ==
    IF restoring THEN h
    ELSE LET kept == IF h.index < Len(h.entries) - 1
                     THEN SubSeq(h.entries, 1, h.index + 1) ELSE h.entries
             pushed == Append(kept, Snapshot(objs))
         IN  [entries |-> pushed, index |-> Len(pushed) - 1]

\* saveState on h = [entries, index] with the canvas showing objs
saveState(h, restoring, objs) ==
    IF restoring THEN h
    ELSE LET kept == IF h.index < Len(h.entries) - 1
                     THEN SubSeq(h.entries, 1, h.index + 1) ELSE h.entries
             pushed == Append(kept, Snapshot(objs))
         IN  IF Len(pushed) > HISTORY_LIMIT
             THEN [entries |-> Tail(pushed), index |-> Len(pushed) - 2]
             ELSE [entries |-> pushed, index |-> Len(pushed) - 1]

\* saveState called once per event, each event seeing the scene of its moment
RECURSIVE saveStates(_, _, _)
saveStates(h, restoring, scenes) ==
    IF scenes = <<>> THEN h
    ELSE saveStates(saveState(h, restoring, Head(scenes)), restoring, Tail(scenes))

\* the scenes seen by the events of canvas.loadFromJSON replacing old by new:
\* clear() removes the old objects front to back (object:removed after each),
\* add(...new) inserts all new objects and then fires object:added for each
ReloadScenes(old, new) ==
    [i \in 1..Len(old) |-> SubSeq(old, i + 1, Len(old))]
    \o [j \in 1..Len(new) |-> new]

Hist == [entries |-> historyRef, index |-> indexRef]

\* the call sequence of the history scenario: three commits, two undos, one
\* redo, a commit and a further redo, each restoration awaited
Scenario ==
    <<"commit", "commit", "commit", "undo", "done", "undo", "done",
      "redo", "done", "commit", "redo">>

ScenarioOff == -1

\* script counts how many calls of Scenario the calls so far match exactly
ScriptAfter(op) ==
    IF script # ScenarioOff /\ script < Len(Scenario) /\ Scenario[script + 1] = op
    THEN script + 1 ELSE ScenarioOff

MaxHistEdits == 3

MaxRestores == 3

MaxLoads == 2

\* scene k of a session in which the canvas was mounted (scene 1), one text
\* was added and then dragged back and forth
LongSessionScene(k) ==
    IF k = 1 THEN <<>>
    ELSE <<[NewText(1) EXCEPT !.left = IF k % 2 = 0 THEN 100 ELSE 140]>>

\* FabricCanvas effect: registers the handlers and calls saveState()
Mount ==
    /\ ~mounted
    /\ mounted' = TRUE
    /\ LET h == saveState(Hist, isRestoringRef, canvasObjs)
       IN  historyRef' = h.entries /\ indexRef' = h.index
    /\ script' = ScriptAfter("commit")
    /\ UNCHANGED <<canvasObjs, nextId, edits, isRestoringRef, loads, restores>>
    /\ UNCHANGED <<layoutVars, geomVars, serialVars, studioVars, netVars, timeoutVars>>

\* a scene mutation to newObjs and the saveState of its event handler
Edit(newObjs) ==
    /\ mounted
    /\ edits < MaxHistEdits
    /\ edits' = edits + 1
    /\ canvasObjs' = newObjs
    /\ LET h == saveState(Hist, isRestoringRef, newObjs)
       IN  historyRef' = h.entries /\ indexRef' = h.index
    /\ script' = ScriptAfter("commit")
    /\ UNCHANGED <<isRestoringRef, loads, mounted, restores>>
    /\ UNCHANGED <<layoutVars, geomVars, serialVars, studioVars, netVars, timeoutVars>>

\* addTextObject -> object:added
HistAddText ==
    /\ Edit(Append(canvasObjs, NewText(nextId)))
    /\ nextId' = nextId + 1

\* addImageObject with a url that decodes -> object:added
HistAddImage ==
    /\ Edit(Append(canvasObjs, NewImage(nextId, "ok.png")))
    /\ nextId' = nextId + 1

\* Delete / Backspace in handleKeyDown -> object:removed
HistRemove(i) ==
    /\ Edit(RemoveAt(canvasObjs, i))
    /\ UNCHANGED nextId

\* the user drags an object -> object:modified
HistDrag(i) ==
    /\ Edit(Dragged(canvasObjs, i))
    /\ UNCHANGED nextId

\* a scene mutation to newObjs that fires none of object:added,
\* object:removed and object:modified: no handler runs, saveState is not called
SilentEdit(newObjs) ==
    /\ mounted
    /\ edits < MaxHistEdits
    /\ edits' = edits + 1
    /\ canvasObjs' = newObjs
    /\ script' = ScenarioOff
    /\ UNCHANGED <<historyRef, indexRef, isRestoringRef, loads, mounted, restores, nextId>>
    /\ UNCHANGED <<layoutVars, geomVars, serialVars, studioVars, netVars, timeoutVars>>

\* ElementSidebar updateObject('left', value) on the selected object i:
\* obj.set(key, value) and canvas.renderAll()
updateObject(i, value) ==
    SilentEdit([canvasObjs EXCEPT ![i].left = value])

\* canvas.moveObjectTo(obj, index): indices from 1
moveObjectTo(objs, from, to) ==
    LET rest == RemoveAt(objs, from)
    IN  SubSeq(rest, 1, to - 1) \o <<objs[from]>> \o SubSeq(rest, to, Len(rest))

\* LayerPanel handleMoveUp(index) on row index of the list, top layer first
handleMoveUp(index) ==
    LET realIndex == Len(canvasObjs) - 1 - index
    IN  /\ realIndex < Len(canvasObjs) - 1
        /\ SilentEdit(moveObjectTo(canvasObjs, realIndex + 1, realIndex + 2))

\* LayerPanel handleMoveDown(index)
handleMoveDown(index) ==
    LET realIndex == Len(canvasObjs) - 1 - index
    IN  /\ realIndex > 0
        /\ SilentEdit(moveObjectTo(canvasObjs, realIndex + 1, realIndex))

\* mutant of undo: the entry restored is the one the cursor was on
UndoRestoresCurrent ==
    /\ mounted
    /\ IF indexRef <= 0
       THEN UNCHANGED <<isRestoringRef, indexRef, loads, restores>>
       ELSE /\ restores < MaxRestores /\ Len(loads) < MaxLoads
            /\ restores' = restores + 1
            /\ isRestoringRef' = TRUE
            /\ indexRef' = indexRef - 1
            /\ loads' = Append(loads, historyRef[indexRef + 1])
    /\ script' = ScriptAfter("undo")
    /\ UNCHANGED <<canvasObjs, nextId, edits, historyRef, mounted>>
    /\ UNCHANGED <<layoutVars, geomVars, serialVars, studioVars, netVars, timeoutVars>>

\* undo() up to its await; a call with indexRef <= 0 returns at once
Undo ==
    /\ mounted
    /\ IF indexRef <= 0
       THEN UNCHANGED <<isRestoringRef, indexRef, loads, restores>>
       ELSE /\ restores < MaxRestores /\ Len(loads) < MaxLoads
            /\ restores' = restores + 1
            /\ isRestoringRef' = TRUE
            /\ indexRef' = indexRef - 1
            /\ loads' = Append(loads, historyRef[indexRef' + 1])
    /\ script' = ScriptAfter("undo")
    /\ UNCHANGED <<canvasObjs, nextId, edits, historyRef, mounted>>
    /\ UNCHANGED <<layoutVars, geomVars, serialVars, studioVars, netVars, timeoutVars>>

\* redo() up to its await; a call at the newest entry returns at once
Redo ==
    /\ mounted
    /\ IF indexRef >= Len(historyRef) - 1
       THEN UNCHANGED <<isRestoringRef, indexRef, loads, restores>>
       ELSE /\ restores < MaxRestores /\ Len(loads) < MaxLoads
            /\ restores' = restores + 1
            /\ isRestoringRef' = TRUE
            /\ indexRef' = indexRef + 1
            /\ loads' = Append(loads, historyRef[indexRef' + 1])
    /\ script' = ScriptAfter("redo")
    /\ UNCHANGED <<canvasObjs, nextId, edits, historyRef, mounted>>
    /\ UNCHANGED <<layoutVars, geomVars, serialVars, studioVars, netVars, timeoutVars>>

\* mutant of LoadDone: the events of the reload do not reach saveState
LoadDoneUnrecorded(k) ==
    /\ k \in 1..Len(loads)
    /\ canvasObjs' = loadFromJSON(loads[k]).objs
    /\ isRestoringRef' = FALSE
    /\ loads' = RemoveAt(loads, k)
    /\ script' = ScriptAfter("done")
    /\ UNCHANGED <<historyRef, indexRef, nextId, edits, mounted, restores>>
    /\ UNCHANGED <<layoutVars, geomVars, serialVars, studioVars, netVars, timeoutVars>>

\* the loadFromJSON of an undo or redo settles (in any order): the scene is
\* replaced, the reload's events call saveState, then the caller resumes
\* after its await and clears isRestoringRef
LoadDone(k) ==
    /\ k \in 1..Len(loads)
    /\ LET new == loadFromJSON(loads[k]).objs
           h   == saveStates(Hist, isRestoringRef, ReloadScenes(canvasObjs, new))
       IN  /\ canvasObjs' = new
           /\ historyRef' = h.entries
           /\ indexRef' = h.index
    /\ isRestoringRef' = FALSE
    /\ loads' = RemoveAt(loads, k)
    /\ script' = ScriptAfter("done")
    /\ UNCHANGED <<nextId, edits, mounted, restores>>
    /\ UNCHANGED <<layoutVars, geomVars, serialVars, studioVars, netVars, timeoutVars>>

\* the document holds an image at some depth
RECURSIVE HoldsImage(_)
HoldsImage(d) ==
    d.type = "image" \/ \E i \in 1..Len(d.objects) : HoldsImage(d.objects[i])

\* the loadFromJSON of an undo or redo rejects because an image of the
\* snapshot does not load any more (its url has become unreachable): the
\* scene stays, the rejection ends undo / redo at its await, so the line that
\* clears isRestoringRef is not reached
LoadFailed(k) ==
    /\ k \in 1..Len(loads)
    /\ \E i \in 1..Len(loads[k].objects) : HoldsImage(loads[k].objects[i])
    /\ loads' = RemoveAt(loads, k)
    /\ script' = ScenarioOff
    /\ UNCHANGED <<canvasObjs, historyRef, indexRef, isRestoringRef>>
    /\ UNCHANGED <<nextId, edits, mounted, restores>>
    /\ UNCHANGED <<layoutVars, geomVars, serialVars, studioVars, netVars, timeoutVars>>

(***************************************************************************)
(* Auto-layout (services/autoLayout.ts).  Lengths are integers in units of *)
(* 1/300 px, in which the zone and cell sizes of up to six images are      *)
(* exact; the scaled size of an image is rounded down to a unit.  A text   *)
(* is [role, length, height]: the length of its content and the height     *)
(* fabric measures for its box (calcTextHeight), in px.  An image is what  *)
(* FabricImage.fromURL makes of its url: LoadFails, or [width, height].    *)
(***************************************************************************)
UnitsPerPx == 300

Px(n) == n * UnitsPerPx

\* px * percent / 100, in units
Percent(px, percent) == px * percent * (UnitsPerPx \div 100)

A4_SHORT == 794

A4_LONG == 1123

CANVAS_PADDING == 40

getCanvasDimensions(orientation) ==
    IF orientation = "portrait"
    THEN [width |-> A4_SHORT, height |-> A4_LONG]
    ELSE [width |-> A4_LONG, height |-> A4_SHORT]

LoadFails == [width |-> -1, height |-> -1]

NoRun == [pc |-> "idle"]

NoReady == [pc |-> "idle"]

\* user actions explored on the editor page
MaxSceneSteps == 2

\* texts.filter((t) => t.role === role)
WithRole(texts, role) == SelectSeq(texts, LAMBDA t : t.role = role)

HEADING_PERCENT == 18

BODY_PERCENT == 20

\* imageRatio forgets the body zone
imageRatioWithoutBody(headingRatio, bodyRatio) == 100 - headingRatio

\* the three ratios, in percent
imageRatio(headingRatio, bodyRatio) == 100 - headingRatio - bodyRatio

LAYOUT_GAP == 16

\* what autoLayout computes before it places anything
LayoutFrame(options) ==
    LET dims == getCanvasDimensions(options.orientation)
        hasHeading == WithRole(options.texts, "heading") # <<>>
                      \/ WithRole(options.texts, "subheading") # <<>>
        hasBody == WithRole(options.texts, "body") # <<>>
        headingRatio == IF hasHeading THEN HEADING_PERCENT ELSE 0
        bodyRatio == IF hasBody THEN BODY_PERCENT ELSE 0
    IN  [pad |-> Px(CANVAS_PADDING),
         contentWidthPx |-> dims.width - CANVAS_PADDING * 2,
         contentHeightPx |-> dims.height - CANVAS_PADDING * 2,
         contentWidth |-> Px(dims.width - CANVAS_PADDING * 2),
         contentHeight |-> Px(dims.height - CANVAS_PADDING * 2),
         hasHeading |-> hasHeading,
         hasImages |-> options.images # <<>>,
         hasBody |-> hasBody,
         headingRatio |-> headingRatio,
         bodyRatio |-> bodyRatio,
         imageRatio |-> imageRatio(headingRatio, bodyRatio)]

\* Math.max(Math.min(48, contentWidth / (content.length * 0.6)), 20)
HeadingFontSize(contentWidth, length) ==
    IF length = 0 THEN Px(48)
    ELSE MathMax(MathMin(Px(48), (contentWidth * 10) \div (length * 6)), Px(20))

\* one Textbox of a zone: its box and the textY after it
TextBlock(kind, index, t, f, textY, id) ==
    [kind |-> kind, index |-> index, id |-> id,
     left |-> f.pad, top |-> textY, width |-> f.contentWidth, height |-> Px(t.height),
     fontSize |-> IF kind = "heading" THEN HeadingFontSize(f.contentWidth, t.length)
                  ELSE IF kind = "subheading" THEN Px(20) ELSE Px(16),
     cell |-> [x |-> f.pad, y |-> textY, width |-> f.contentWidth, height |-> Px(t.height)]]

RECURSIVE TextBlocks(_, _, _, _, _, _, _)
\* the loop over the texts of one role from textY on: blocks placed so far
\* in acc, spacing between the boxes
TextBlocks(kind, ts, f, textY, spacing, firstId, acc) ==
    IF Len(acc) = Len(ts) THEN acc
    ELSE LET k == Len(acc) + 1
             block == TextBlock(kind, k, ts[k], f, textY, Uuid(firstId + Len(acc)))
         IN  TextBlocks(kind, ts, f, textY + block.height + spacing, spacing, firstId,
                        Append(acc, block))

\* textY after the blocks
TextEnd(blocks, textY, spacing) ==
    IF blocks = <<>> THEN textY
    ELSE blocks[Len(blocks)].top + blocks[Len(blocks)].height + spacing

\* the heading zone: headings, then subheadings below them
HeadingZone(options, f, firstId) ==
    IF ~f.hasHeading THEN <<>>
    ELSE LET hs == TextBlocks("heading", WithRole(options.texts, "heading"), f, f.pad, Px(10),
                              firstId, <<>>)
             ss == TextBlocks("subheading", WithRole(options.texts, "subheading"), f,
                              TextEnd(hs, f.pad, Px(10)), Px(10), firstId + Len(hs), <<>>)
         IN  hs \o ss

\* currentY when the image zone begins
ImageZoneTop(f) == f.pad + Percent(f.contentHeightPx, f.headingRatio)

ImageZoneHeight(f) == Percent(f.contentHeightPx, f.imageRatio)

\* currentY when the body zone begins
BodyZoneTop(f) ==
    IF f.hasImages THEN ImageZoneTop(f) + ImageZoneHeight(f) ELSE ImageZoneTop(f)

\* the body zone
BodyZone(options, f, firstId) ==
    IF ~f.hasBody THEN <<>>
    ELSE TextBlocks("body", WithRole(options.texts, "body"), f, BodyZoneTop(f) + Px(10), Px(12),
                    firstId, <<>>)

\* the x, y, maxWidth, maxHeight handed to placeImage for the i-th of n
\* images, i counted from 0
ImageCell(n, i, f) ==
    LET gap == Px(LAYOUT_GAP)
        currentY == ImageZoneTop(f)
        zoneHeight == ImageZoneHeight(f)
    IN  IF n = 1
        THEN [x |-> f.pad, y |-> currentY, width |-> f.contentWidth, height |-> zoneHeight - gap]
        ELSE IF n = 2
        THEN LET cellWidth == (f.contentWidth - gap) \div 2
             IN  [x |-> IF i = 0 THEN f.pad ELSE f.pad + cellWidth + gap, y |-> currentY,
                  width |-> cellWidth, height |-> zoneHeight - gap]
        ELSE IF n = 3
        THEN LET leftWidth == Percent(f.contentWidthPx, 60) - gap \div 2
                 rightWidth == Percent(f.contentWidthPx, 40) - gap \div 2
                 halfHeight == (zoneHeight - gap * 2) \div 2
             IN  IF i = 0
                 THEN [x |-> f.pad, y |-> currentY, width |-> leftWidth, height |-> zoneHeight - gap]
                 ELSE [x |-> f.pad + leftWidth + gap,
                       y |-> IF i = 1 THEN currentY ELSE currentY + halfHeight + gap,
                       width |-> rightWidth, height |-> halfHeight]
        ELSE LET cols == 2
                 rows == (n + cols - 1) \div cols
                 cellWidth == (f.contentWidth - gap * (cols - 1)) \div cols
                 cellHeight == (zoneHeight - gap * (rows + 1)) \div rows
             IN  [x |-> f.pad + (i % cols) * (cellWidth + gap),
                  y |-> currentY + (i \div cols) * (cellHeight + gap),
                  width |-> cellWidth, height |-> cellHeight]

\* placeImage: no object for an image that fails to load or has no width
\* or height; else the image scaled into the cell and centred
placeImage(img, index, cell, id) ==
    IF img = LoadFails \/ img.width = 0 \/ img.height = 0 THEN <<>>
    ELSE LET widthBound == cell.width * img.height <= cell.height * img.width
             width == IF widthBound THEN cell.width ELSE (img.width * cell.height) \div img.height
             height == IF widthBound THEN (img.height * cell.width) \div img.width ELSE cell.height
         IN  << [kind |-> "image", index |-> index, id |-> id,
                 left |-> cell.x + (cell.width - width) \div 2,
                 top |-> cell.y + (cell.height - height) \div 2,
                 width |-> width, height |-> height, fontSize |-> 0, cell |-> cell] >>

RECURSIVE PlacedImages(_, _, _, _, _)
\* the image zone's calls of placeImage, one after the other, from image i on
PlacedImages(images, f, i, firstId, acc) ==
    IF i = Len(images) THEN acc
    ELSE PlacedImages(images, f, i + 1, firstId,
             acc \o placeImage(images[i + 1], i, ImageCell(Len(images), i, f),
                               Uuid(firstId + Len(acc))))

\* the whole of autoLayout: the boxes it adds to the canvas, in order
autoLayout(options, firstId) ==
    LET f == LayoutFrame(options)
        heading == HeadingZone(options, f, firstId)
        images == PlacedImages(options.images, f, 0, firstId + Len(heading), <<>>)
    IN  heading \o images \o BodyZone(options, f, firstId + Len(heading) + Len(images))

\* the canvas object of a placed block
LayoutObject(block) ==
    [type |-> IF block.kind = "image" THEN "image" ELSE "textbox", id |-> block.id,
     elementName |-> IF block.kind = "image" THEN "Image" ELSE "text",
     payload |-> IF block.kind = "image" THEN "ok.png" ELSE "text",
     objects |-> <<>>, left |-> block.left]

LayoutObjects(blocks) == [k \in 1..Len(blocks) |-> LayoutObject(blocks[k])]

\* autoLayout up to its first await, or to its end when there is no image
LayoutStart(options) ==
    /\ layoutRun.pc = "idle"
    /\ LET f == LayoutFrame(options)
           heading == HeadingZone(options, f, nextId)
           body == IF f.hasImages THEN <<>> ELSE BodyZone(options, f, nextId + Len(heading))
           h == IF mounted
                THEN saveStates(Hist, isRestoringRef,
                         [k \in 1..Len(heading \o body) |->
                             canvasObjs \o SubSeq(LayoutObjects(heading \o body), 1, k)])
                ELSE Hist
       IN  /\ layoutRun' = [pc |-> IF f.hasImages THEN "images" ELSE "done",
                            options |-> options, frame |-> f, settled |-> 0]
           /\ placements' = placements \o heading \o body
           /\ canvasObjs' = canvasObjs \o LayoutObjects(heading \o body)
           /\ nextId' = nextId + Len(heading) + Len(body)
           /\ historyRef' = h.entries /\ indexRef' = h.index
    /\ pageReady' = IF pageReady.pc = "layout" THEN [pageReady EXCEPT !.pc = "done"] ELSE pageReady
    /\ UNCHANGED <<edits, isRestoringRef, loads, mounted, restores, script>>
    /\ UNCHANGED <<geomVars, serialVars, studioVars, netVars, timeoutVars>>

\* placeImage without its try / catch: the failure of an image ends autoLayout
ImageSettledFatal ==
    /\ layoutRun.pc = "images"
    /\ LET options == layoutRun.options
           f == layoutRun.frame
           i == layoutRun.settled
           n == Len(options.images)
           raised == options.images[i + 1] = LoadFails
           image == placeImage(options.images[i + 1], i, ImageCell(n, i, f), Uuid(nextId))
           body == IF i + 1 = n /\ ~raised THEN BodyZone(options, f, nextId + Len(image)) ELSE <<>>
       IN  /\ layoutRun' = [layoutRun EXCEPT !.settled = i + 1,
                                             !.pc = IF i + 1 = n \/ raised THEN "done" ELSE "images"]
           /\ placements' = placements \o image \o body
           /\ canvasObjs' = canvasObjs \o LayoutObjects(image \o body)
           /\ nextId' = nextId + Len(image) + Len(body)
           /\ LET h == IF mounted
                       THEN saveStates(Hist, isRestoringRef,
                                [k \in 1..Len(image \o body) |->
                                    canvasObjs \o SubSeq(LayoutObjects(image \o body), 1, k)])
                       ELSE Hist
              IN  historyRef' = h.entries /\ indexRef' = h.index
    /\ UNCHANGED <<edits, isRestoringRef, loads, mounted, restores, script, pageReady>>
    /\ UNCHANGED <<geomVars, serialVars, studioVars, netVars, timeoutVars>>

\* FabricImage.fromURL of the image autoLayout awaits settles: placeImage
\* ends, and autoLayout goes on to the next image or, after the last one,
\* to the body zone and its end
ImageSettled ==
    /\ layoutRun.pc = "images"
    /\ LET options == layoutRun.options
           f == layoutRun.frame
           i == layoutRun.settled
           n == Len(options.images)
           image == placeImage(options.images[i + 1], i, ImageCell(n, i, f), Uuid(nextId))
           body == IF i + 1 = n THEN BodyZone(options, f, nextId + Len(image)) ELSE <<>>
       IN  /\ layoutRun' = [layoutRun EXCEPT !.settled = i + 1,
                                             !.pc = IF i + 1 = n THEN "done" ELSE "images"]
           /\ placements' = placements \o image \o body
           /\ canvasObjs' = canvasObjs \o LayoutObjects(image \o body)
           /\ nextId' = nextId + Len(image) + Len(body)
           /\ LET h == IF mounted
                       THEN saveStates(Hist, isRestoringRef,
                                [k \in 1..Len(image \o body) |->
                                    canvasObjs \o SubSeq(LayoutObjects(image \o body), 1, k)])
                       ELSE Hist
              IN  historyRef' = h.entries /\ indexRef' = h.index
    /\ UNCHANGED <<edits, isRestoringRef, loads, mounted, restores, script, pageReady>>
    /\ UNCHANGED <<geomVars, serialVars, studioVars, netVars, timeoutVars>>

(***************************************************************************)
(* The editor page (EditorPage.handleCanvasReady) on a mounted             *)
(* FabricCanvas: the canvas is filled from the saved project, the store,   *)
(* the built-in template or its thumbnail, and autoLayout places the       *)
(* input content, while the user adds texts and undoes and redoes.  The    *)
(* handlers FabricCanvas registers call saveState for every object added   *)
(* or removed.  pageReady is [pc, saved, canvasJSON, template, options,        *)
(* loaded, steps]: pc is the await handleCanvasReady stands at.            *)
(***************************************************************************)
\* the id 'template-thumbnail-fallback'
FallbackId == 90

\* the id 'excel-full-frame'
ExcelFrameId == 91

RECURSIVE ReadyStageIgnoresLoaded(_, _, _)
\* ReadyStage without the checks of loaded
ReadyStageIgnoresLoaded(pc, loaded, r) ==
    IF pc = "saved"
    THEN IF r.saved # NoDoc THEN pc ELSE ReadyStageIgnoresLoaded("store", loaded, r)
    ELSE IF pc = "store"
    THEN IF r.canvasJSON # NoDoc THEN pc ELSE ReadyStageIgnoresLoaded("template", loaded, r)
    ELSE IF pc = "template"
    THEN IF r.template.canvasJSON # NoDoc THEN pc
         ELSE ReadyStageIgnoresLoaded("thumbnail", loaded, r)
    ELSE IF pc = "thumbnail"
    THEN IF r.template.thumbnail # "none" THEN pc
         ELSE ReadyStageIgnoresLoaded("layout", loaded, r)
    ELSE IF r.options.images # <<>> \/ r.options.texts # <<>> THEN "layout" ELSE "done"

RECURSIVE ReadyStage(_, _, _)
\* the next await of handleCanvasReady from stage pc on
ReadyStage(pc, loaded, r) ==
    IF pc = "saved"
    THEN IF r.saved # NoDoc THEN pc ELSE ReadyStage("store", loaded, r)
    ELSE IF pc = "store"
    THEN IF r.canvasJSON # NoDoc THEN pc ELSE ReadyStage("template", loaded, r)
    ELSE IF pc = "template"
    THEN IF ~loaded /\ r.template.canvasJSON # NoDoc THEN pc
         ELSE ReadyStage("thumbnail", loaded, r)
    ELSE IF pc = "thumbnail"
    THEN IF ~loaded /\ r.template.thumbnail # "none" THEN pc ELSE ReadyStage("layout", loaded, r)
    ELSE IF r.options.images # <<>> \/ r.options.texts # <<>> THEN "layout" ELSE "done"

StageAfter(pc) ==
    IF pc = "saved" THEN "store" ELSE IF pc = "store" THEN "template"
    ELSE IF pc = "template" THEN "thumbnail" ELSE "layout"

\* normalizeExcelFrame: the first image with one of the two frame ids is
\* centred and moved to the back
normalizeExcelFrame(objs) ==
    LET frames == { i \in 1..Len(objs) :
                      objs[i].type = "image" /\ objs[i].id \in {ExcelFrameId, FallbackId} }
    IN  IF frames = {} THEN objs
        ELSE LET i == CHOOSE j \in frames : \A k \in frames : j <= k
             IN  <<[objs[i] EXCEPT !.left = 0]>> \o RemoveAt(objs, i)

\* the canvas when handleCanvasReady has passed the awaits before stage pc
Normalized(pc, r, objs) ==
    IF pc \in {"layout", "done"} /\ r.template.isDefault THEN normalizeExcelFrame(objs) ELSE objs

\* the scenes the object:added handlers see while added is added to old
AddedScenes(old, added) == [k \in 1..Len(added) |-> old \o SubSeq(added, 1, k)]

\* saveState for each scene, when FabricCanvas has registered its handlers
Recorded(scenes) ==
    IF mounted THEN saveStates(Hist, isRestoringRef, scenes) ELSE Hist

\* the thumbnail image of the last-resort fallback
FallbackImage(src) ==
    [type |-> "image", id |-> FallbackId, elementName |-> "Template Fallback",
     payload |-> src, objects |-> <<>>, left |-> 100]

\* an awaited deserializeCanvas of handleCanvasReady ends; when it raises,
\* handleCanvasReady ends with it
ReadyDeserialized ==
    /\ pageReady.pc \in {"saved", "store", "template"}
    /\ LET doc == IF pageReady.pc = "saved" THEN pageReady.saved
                  ELSE IF pageReady.pc = "store" THEN pageReady.canvasJSON
                  ELSE pageReady.template.canvasJSON
           r == deserializeCanvas(doc)
           new == IF r.loaded THEN r.objs ELSE canvasObjs
           h == Recorded(IF r.loaded THEN ReloadScenes(canvasObjs, new) ELSE <<>>)
           pc == IF r.raised # NoError THEN "done"
                 ELSE ReadyStage(StageAfter(pageReady.pc), Len(new) > 0, pageReady)
       IN  /\ canvasObjs' = IF r.raised # NoError THEN new ELSE Normalized(pc, pageReady, new)
           /\ historyRef' = h.entries /\ indexRef' = h.index
           /\ pageReady' = [pageReady EXCEPT !.pc = pc, !.loaded = Len(new) > 0]
    /\ UNCHANGED <<nextId, edits, isRestoringRef, loads, mounted, restores, script>>
    /\ UNCHANGED <<layoutRun, placements>>
    /\ UNCHANGED <<geomVars, serialVars, studioVars, netVars, timeoutVars>>

\* FabricImage.fromURL(template.thumbnail) settles
ReadyThumbnail ==
    /\ pageReady.pc = "thumbnail"
    /\ LET ok == Decodable(pageReady.template.thumbnail)
           added == IF ok THEN <<FallbackImage(pageReady.template.thumbnail)>> ELSE <<>>
           h == Recorded(AddedScenes(canvasObjs, added))
           pc == ReadyStage("layout", pageReady.loaded \/ ok, pageReady)
       IN  /\ canvasObjs' = Normalized(pc, pageReady, canvasObjs \o added)
           /\ historyRef' = h.entries /\ indexRef' = h.index
           /\ pageReady' = [pageReady EXCEPT !.pc = pc, !.loaded = pageReady.loaded \/ ok]
    /\ UNCHANGED <<nextId, edits, isRestoringRef, loads, mounted, restores, script>>
    /\ UNCHANGED <<layoutRun, placements>>
    /\ UNCHANGED <<geomVars, serialVars, studioVars, netVars, timeoutVars>>

\* handleCanvasReady calls autoLayout
ReadyLayout ==
    /\ pageReady.pc = "layout"
    /\ LayoutStart(pageReady.options)

\* the user adds a text (ElementSidebar -> addTextObject)
SceneAddText ==
    /\ pageReady.steps < MaxSceneSteps
    /\ LET added == <<NewText(nextId)>>
           h == Recorded(AddedScenes(canvasObjs, added))
       IN  /\ canvasObjs' = canvasObjs \o added
           /\ historyRef' = h.entries /\ indexRef' = h.index
    /\ nextId' = nextId + 1
    /\ pageReady' = [pageReady EXCEPT !.steps = pageReady.steps + 1]
    /\ UNCHANGED <<edits, isRestoringRef, loads, mounted, restores, script>>
    /\ UNCHANGED <<layoutRun, placements>>
    /\ UNCHANGED <<geomVars, serialVars, studioVars, netVars, timeoutVars>>

\* undo() (by = -1) or redo() (by = 1) up to its await
SceneRestore(by) ==
    /\ pageReady.steps < MaxSceneSteps
    /\ IF by < 0 THEN indexRef > 0 ELSE indexRef < Len(historyRef) - 1
    /\ isRestoringRef' = TRUE
    /\ indexRef' = indexRef + by
    /\ loads' = Append(loads, historyRef[indexRef' + 1])
    /\ pageReady' = [pageReady EXCEPT !.steps = pageReady.steps + 1]
    /\ UNCHANGED <<canvasObjs, nextId, edits, historyRef, mounted, restores, script>>
    /\ UNCHANGED <<layoutRun, placements>>
    /\ UNCHANGED <<geomVars, serialVars, studioVars, netVars, timeoutVars>>

\* the page is left and opened again: a new canvas, a new history, and
\* handleCanvasReady with the canvasJSON the store holds now
Remount ==
    /\ pageReady.steps < MaxSceneSteps
    /\ canvasObjs' = <<>>
    /\ historyRef' = <<Snapshot(<<>>)>> /\ indexRef' = 0
    /\ isRestoringRef' = FALSE /\ loads' = <<>>
    /\ layoutRun' = NoRun /\ placements' = <<>>
    /\ pageReady' = [pageReady EXCEPT
                    !.canvasJSON = storedJSON,
                    !.loaded = FALSE,
                    !.steps = pageReady.steps + 1,
                    !.pc = ReadyStage("saved", FALSE, [pageReady EXCEPT !.canvasJSON = storedJSON])]
    /\ UNCHANGED <<nextId, edits, mounted, restores, script>>
    /\ UNCHANGED <<geomVars, serialVars, studioVars, netVars, timeoutVars>>

(***************************************************************************)
(* The template studio (AdminTemplateStudioPage): templates of elements    *)
(* on a canvas, edited by buttons, property fields, pointer interaction,   *)
(* image upload, import and remote snapshots.  Of an element only its id,  *)
(* kind and rect are modelled.                                             *)
(***************************************************************************)
\* Number(v) || d
OrDefault(v, d) == IF IsNaN(v) \/ v = 0 THEN d ELSE v

\* Math.round(a / b) for b > 0: halves round up
RoundDiv(a, b) == (2 * a + b) \div (2 * b)

RectOf(e) == [x |-> e.x, y |-> e.y, width |-> e.width, height |-> e.height]

\* { ...element, ...rect }
WithRect(e, r) ==
    [e EXCEPT !.x = r.x, !.y = r.y, !.width = r.width, !.height = r.height]

\* An image source is a string, kept as its scheme and its remainder;
\* the empty string is <<>>.
CloudUrl == <<"https:", "//storage/image">>

BlobUrl == <<"blob:", "//studio/image">>

DataUrl == <<"data:", "image/png;base64">>

EmptyString == <<>>

\* the value undefined, which no string equals
Undefined == <<"undefined">>

\* text.startsWith(prefix), for a prefix that is a scheme
StartsWith(text, prefix) == Len(text) > 0 /\ text[1] = prefix

\* typeof candidate.src === 'string'
HasStringSrc(candidate) == "src" \in DOMAIN candidate /\ candidate.src # Undefined

Element(id, kind, src, r) ==
    [id |-> id, kind |-> kind, src |-> src,
     x |-> r.x, y |-> r.y, width |-> r.width, height |-> r.height]

DEFAULT_ELEMENT_WIDTH == 280

DEFAULT_ELEMENT_HEIGHT == 200

\* a candidate without a string id gets a fresh one
sanitizeTemplateElement(candidate, canvasWidth, canvasHeight, freshId) ==
    LET r == clampRectToCanvas(
                 [x |-> OrDefault(candidate.x, 0),
                  y |-> OrDefault(candidate.y, 0),
                  width |-> OrDefault(candidate.width, DEFAULT_ELEMENT_WIDTH),
                  height |-> OrDefault(candidate.height, DEFAULT_ELEMENT_HEIGHT)],
                 canvasWidth, canvasHeight)
    IN  Element(IF candidate.id = NoId THEN freshId ELSE candidate.id,
                IF candidate.kind = "image" THEN "image" ELSE "frame",
                IF candidate.kind = "image" /\ HasStringSrc(candidate)
                THEN candidate.src ELSE Undefined,
                r)

\* a timestamp that is missing or the empty string
NoTime == 0

\* fresh ids are handed out from freshBase on: the template's first, then
\* its elements'; now is what nowIso() returns
sanitizeTemplate(candidate, freshBase, now) ==
    LET canvasWidth  == clamp(OrDefault(candidate.canvasWidth, DEFAULT_CANVAS_WIDTH),
                              CANVAS_MIN_WIDTH, CANVAS_MAX)
        canvasHeight == clamp(OrDefault(candidate.canvasHeight, DEFAULT_CANVAS_HEIGHT),
                              CANVAS_MIN_HEIGHT, CANVAS_MAX)
    IN  [id |-> IF candidate.id = NoId THEN Uuid(freshBase) ELSE candidate.id,
         canvasWidth |-> canvasWidth,
         canvasHeight |-> canvasHeight,
         elements |-> [i \in 1..Len(candidate.elements) |->
                          sanitizeTemplateElement(candidate.elements[i], canvasWidth,
                                                  canvasHeight, Uuid(freshBase + i))],
         createdAt |-> IF candidate.createdAt # NoTime THEN candidate.createdAt ELSE now,
         updatedAt |-> IF candidate.updatedAt # NoTime THEN candidate.updatedAt ELSE now]

createBlankTemplate(id, timestamp) ==
    [id |-> id, canvasWidth |-> DEFAULT_CANVAS_WIDTH,
     canvasHeight |-> DEFAULT_CANVAS_HEIGHT, elements |-> <<>>,
     createdAt |-> timestamp, updatedAt |-> timestamp]

\* the directions a resize handle includes
HandleDirs ==
    [n |-> {"n"}, s |-> {"s"}, e |-> {"e"}, w |-> {"w"},
     ne |-> {"n", "e"}, nw |-> {"n", "w"}, se |-> {"s", "e"}, sw |-> {"s", "w"}]

Handles == DOMAIN HandleDirs

Includes(handle, dir) == dir \in HandleDirs[handle]

\* mutant of resizeRectFromHandle: a rect past the right edge is always shifted
\* back, whichever handle is dragged
resizeRectShifts(handle, startRect, deltaX, deltaY, canvasWidth, canvasHeight) ==
    LET w1 == IF Includes(handle, "w") THEN startRect.width - deltaX
              ELSE IF Includes(handle, "e") THEN startRect.width + deltaX
              ELSE startRect.width
        x1 == IF Includes(handle, "w") THEN startRect.x + deltaX ELSE startRect.x
        h1 == IF Includes(handle, "n") THEN startRect.height - deltaY
              ELSE IF Includes(handle, "s") THEN startRect.height + deltaY
              ELSE startRect.height
        y1 == IF Includes(handle, "n") THEN startRect.y + deltaY ELSE startRect.y
        \* minimum size
        x2 == IF w1 < MIN_ELEMENT_SIZE /\ Includes(handle, "w")
              THEN x1 - (MIN_ELEMENT_SIZE - w1) ELSE x1
        w2 == IF w1 < MIN_ELEMENT_SIZE THEN MIN_ELEMENT_SIZE ELSE w1
        y2 == IF h1 < MIN_ELEMENT_SIZE /\ Includes(handle, "n")
              THEN y1 - (MIN_ELEMENT_SIZE - h1) ELSE y1
        h2 == IF h1 < MIN_ELEMENT_SIZE THEN MIN_ELEMENT_SIZE ELSE h1
        \* left and top edge
        w3 == IF x2 < 0 /\ Includes(handle, "w") THEN w2 + x2 ELSE w2
        x3 == IF x2 < 0 THEN 0 ELSE x2
        h3 == IF y2 < 0 /\ Includes(handle, "n") THEN h2 + y2 ELSE h2
        y3 == IF y2 < 0 THEN 0 ELSE y2
        \* right and bottom edge
        overX == x3 + w3 > canvasWidth
        w4 == w3
        x4 == IF overX THEN canvasWidth - w3 ELSE x3
        overY == y3 + h3 > canvasHeight
        h4 == IF overY /\ Includes(handle, "s") THEN canvasHeight - y3 ELSE h3
        y4 == IF overY /\ ~Includes(handle, "s") THEN canvasHeight - h3 ELSE y3
    IN  clampRectToCanvas([x |-> x4, y |-> y4, width |-> w4, height |-> h4],
                          canvasWidth, canvasHeight)

\* mutant of resizeRectFromHandle: the minimum size is restored without
\* moving the origin back, so the rect grows over its fixed edge
resizeRectGrowsAnywhere(handle, startRect, deltaX, deltaY, canvasWidth, canvasHeight) ==
    LET w1 == IF Includes(handle, "w") THEN startRect.width - deltaX
              ELSE IF Includes(handle, "e") THEN startRect.width + deltaX
              ELSE startRect.width
        x1 == IF Includes(handle, "w") THEN startRect.x + deltaX ELSE startRect.x
        h1 == IF Includes(handle, "n") THEN startRect.height - deltaY
              ELSE IF Includes(handle, "s") THEN startRect.height + deltaY
              ELSE startRect.height
        y1 == IF Includes(handle, "n") THEN startRect.y + deltaY ELSE startRect.y
        \* minimum size
        x2 == x1
        w2 == IF w1 < MIN_ELEMENT_SIZE THEN MIN_ELEMENT_SIZE ELSE w1
        y2 == y1
        h2 == IF h1 < MIN_ELEMENT_SIZE THEN MIN_ELEMENT_SIZE ELSE h1
        \* left and top edge
        w3 == IF x2 < 0 /\ Includes(handle, "w") THEN w2 + x2 ELSE w2
        x3 == IF x2 < 0 THEN 0 ELSE x2
        h3 == IF y2 < 0 /\ Includes(handle, "n") THEN h2 + y2 ELSE h2
        y3 == IF y2 < 0 THEN 0 ELSE y2
        \* right and bottom edge
        overX == x3 + w3 > canvasWidth
        w4 == IF overX /\ Includes(handle, "e") THEN canvasWidth - x3 ELSE w3
        x4 == IF overX /\ ~Includes(handle, "e") THEN canvasWidth - w3 ELSE x3
        overY == y3 + h3 > canvasHeight
        h4 == IF overY /\ Includes(handle, "s") THEN canvasHeight - y3 ELSE h3
        y4 == IF overY /\ ~Includes(handle, "s") THEN canvasHeight - h3 ELSE y3
    IN  clampRectToCanvas([x |-> x4, y |-> y4, width |-> w4, height |-> h4],
                          canvasWidth, canvasHeight)

resizeRectFromHandle(handle, startRect, deltaX, deltaY, canvasWidth, canvasHeight) ==
    LET w1 == IF Includes(handle, "w") THEN startRect.width - deltaX
              ELSE IF Includes(handle, "e") THEN startRect.width + deltaX
              ELSE startRect.width
        x1 == IF Includes(handle, "w") THEN startRect.x + deltaX ELSE startRect.x
        h1 == IF Includes(handle, "n") THEN startRect.height - deltaY
              ELSE IF Includes(handle, "s") THEN startRect.height + deltaY
              ELSE startRect.height
        y1 == IF Includes(handle, "n") THEN startRect.y + deltaY ELSE startRect.y
        \* minimum size
        x2 == IF w1 < MIN_ELEMENT_SIZE /\ Includes(handle, "w")
              THEN x1 - (MIN_ELEMENT_SIZE - w1) ELSE x1
        w2 == IF w1 < MIN_ELEMENT_SIZE THEN MIN_ELEMENT_SIZE ELSE w1
        y2 == IF h1 < MIN_ELEMENT_SIZE /\ Includes(handle, "n")
              THEN y1 - (MIN_ELEMENT_SIZE - h1) ELSE y1
        h2 == IF h1 < MIN_ELEMENT_SIZE THEN MIN_ELEMENT_SIZE ELSE h1
        \* left and top edge
        w3 == IF x2 < 0 /\ Includes(handle, "w") THEN w2 + x2 ELSE w2
        x3 == IF x2 < 0 THEN 0 ELSE x2
        h3 == IF y2 < 0 /\ Includes(handle, "n") THEN h2 + y2 ELSE h2
        y3 == IF y2 < 0 THEN 0 ELSE y2
        \* right and bottom edge
        overX == x3 + w3 > canvasWidth
        w4 == IF overX /\ Includes(handle, "e") THEN canvasWidth - x3 ELSE w3
        x4 == IF overX /\ ~Includes(handle, "e") THEN canvasWidth - w3 ELSE x3
        overY == y3 + h3 > canvasHeight
        h4 == IF overY /\ Includes(handle, "s") THEN canvasHeight - y3 ELSE h3
        y4 == IF overY /\ ~Includes(handle, "s") THEN canvasHeight - h3 ELSE y3
    IN  clampRectToCanvas([x |-> x4, y |-> y4, width |-> w4, height |-> h4],
                          canvasWidth, canvasHeight)

\* resizeRectFromHandle on a start rect recorded at pointer-down and a canvas
\* that may have changed since (a preset switch or a snapshot during the drag)
ResizeStarts ==
    { [x |-> x, y |-> y, width |-> 100, height |-> 80] : x \in {10, 870}, y \in {10, 1000} }

ResizeCanvases ==
    { [w |-> DEFAULT_CANVAS_WIDTH, h |-> DEFAULT_CANVAS_HEIGHT],
      [w |-> DEFAULT_CANVAS_HEIGHT, h |-> DEFAULT_CANVAS_WIDTH] }

ResizeDeltas == {-10000, -30, 30, 50, 10000}

MaxResizeCalls == 2

ResizeRect(handle, deltaX, deltaY) ==
    /\ clampCalls < MaxResizeCalls
    /\ prevRect' = rectIn
    /\ rect' = resizeRectFromHandle(handle, rectIn, deltaX, deltaY, bounds.w, bounds.h)
    /\ drag' = [handle |-> handle, deltaX |-> deltaX, deltaY |-> deltaY]
    /\ clampCalls' = clampCalls + 1
    /\ UNCHANGED <<rectIn, bounds>>
    /\ UNCHANGED <<layoutVars, sceneVars, serialVars, histVars, studioVars, netVars, timeoutVars>>

\* templates.find(t => t.id === id): its index, 0 for null
TemplateIndex(ts, id) ==
    IF \E i \in 1..Len(ts) : ts[i].id = id
    THEN CHOOSE i \in 1..Len(ts) :
             ts[i].id = id /\ \A j \in 1..(i - 1) : ts[j].id # id
    ELSE 0

HasElement(t, elementId) == \E i \in 1..Len(t.elements) : t.elements[i].id = elementId

\* elements.find(e => e.id === elementId), for a template that has it
FindElement(t, elementId) ==
    t.elements[CHOOSE i \in 1..Len(t.elements) :
                   t.elements[i].id = elementId
                   /\ \A j \in 1..(i - 1) : t.elements[j].id # elementId]

\* templates.map(t => t.id !== id ? t : updater(t))
\* updated[i] is updater(ts[i])
MapTemplate(ts, id, updated) ==
    [i \in 1..Len(ts) |-> IF ts[i].id = id THEN updated[i] ELSE ts[i]]

\* elements.findIndex(e => e.id === elementId) + 1, for a template that has it
ElementIndex(t, elementId) ==
    CHOOSE i \in 1..Len(t.elements) :
        t.elements[i].id = elementId /\ \A j \in 1..(i - 1) : t.elements[j].id # elementId

\* elements.map(e => e.id !== elementId ? e : updater(e))
\* updated[i] is updater(t.elements[i])
MapElement(t, elementId, updated) ==
    [t EXCEPT !.elements =
        [i \in 1..Len(t.elements) |->
            IF t.elements[i].id = elementId THEN updated[i] ELSE t.elements[i]]]

AppendElements(t, es) == [t EXCEPT !.elements = t.elements \o es]

\* { ...nextTemplate, updatedAt: nowIso() }
Touch(t, now) == [t EXCEPT !.updatedAt = now]

\* the effect that keeps activeTemplateId on an existing template
EffectActive(ts, active) ==
    IF ts = <<>> \/ TemplateIndex(ts, active) # 0 THEN active ELSE ts[1].id

\* the effect that drops a selection the active template does not hold
EffectSelected(ts, active, selected) ==
    IF /\ selected # NoId
       /\ TemplateIndex(ts, active) # 0
       /\ ~HasElement(ts[TemplateIndex(ts, active)], selected)
    THEN NoId
    ELSE selected

NoInteraction ==
    [mode |-> "none", elementId |-> NoId, handle |-> "se", startRect |-> IdleRect]

NoUpload ==
    [templateId |-> NoId, canvasWidth |-> 0, canvasHeight |-> 0, files |-> <<>>, firstId |-> NoId]

\* placeholder sizes in percent of the canvas
PlaceholderRatio ==
    [generic     |-> [widthRatio |-> 38, heightRatio |-> 20],
     imageSlot   |-> [widthRatio |-> 72, heightRatio |-> 34],
     textMain    |-> [widthRatio |-> 80, heightRatio |-> 12],
     textSub     |-> [widthRatio |-> 68, heightRatio |-> 10]]

PlaceholderTypes == DOMAIN PlaceholderRatio

DUPLICATE_SHIFT == 24

UPLOAD_MAX_WIDTH_PERCENT == 72

UPLOAD_MAX_HEIGHT_PERCENT == 60

UPLOAD_STAGGER == 22

\* an image file the browser cannot read has no size
Unreadable == [width |-> NaN, height |-> NaN]

\* the rect handleUploadTemplateImages gives the index-th file (0-based) of
\* natural size `size`, from the canvas size it read when the upload began
UploadRect(size, index, canvasWidth, canvasHeight) ==
    LET mw == canvasWidth * UPLOAD_MAX_WIDTH_PERCENT      \* 100 * maxWidth
        mh == canvasHeight * UPLOAD_MAX_HEIGHT_PERCENT    \* 100 * maxHeight
        fits == mw >= 100 * size.width /\ mh >= 100 * size.height
        byWidth == mw * size.height <= mh * size.width
        scaledW == IF fits THEN size.width
                   ELSE IF byWidth THEN RoundDiv(mw, 100)
                   ELSE RoundDiv(size.width * mh, 100 * size.height)
        scaledH == IF fits THEN size.height
                   ELSE IF byWidth THEN RoundDiv(size.height * mw, 100 * size.width)
                   ELSE RoundDiv(mh, 100)
        width  == MathMax(MIN_ELEMENT_SIZE, scaledW)
        height == MathMax(MIN_ELEMENT_SIZE, scaledH)
    IN  [x |-> clamp(RoundDiv(canvasWidth - width + 2 * UPLOAD_STAGGER * index, 2),
                     0, canvasWidth - width),
         y |-> clamp(RoundDiv(canvasHeight - height + 2 * UPLOAD_STAGGER * index, 2),
                     0, canvasHeight - height),
         width |-> width, height |-> height]

\* what becomes of uploadTemplateImage(templateId, elementId, file): the
\* download URL, a rejection of uploadBytes or getDownloadURL, or the
\* timeout of either
UploadFates == {"stored", "rejected", "timedOut"}

\* the imageUrl of a file: the download URL, or URL.createObjectURL(file)
\* from the catch block around uploadTemplateImage.  A file that carries
\* its upload's fate gets the URL that fate leads to, any other file gets
\* imageUrl
ImageUrlOf(file, imageUrl) ==
    IF "upload" \in DOMAIN file
    THEN IF file.upload = "stored" THEN CloudUrl ELSE BlobUrl
    ELSE imageUrl

\* createdElements when a failed upload ends the loop over the files
RECURSIVE CreatedElementsUntilFailure(_, _, _, _)
CreatedElementsUntilFailure(up, imageUrl, index, acc) ==
    IF index >= Len(up.files) THEN acc
    ELSE LET size == up.files[index + 1]
         IN  IF IsNaN(size.width) THEN acc
             ELSE IF ImageUrlOf(size, imageUrl) = BlobUrl THEN acc
             ELSE CreatedElementsUntilFailure(up, imageUrl, index + 1,
                      Append(acc, Element(Uuid(up.firstId + index), "image",
                                          ImageUrlOf(size, imageUrl),
                                 UploadRect(size, index, up.canvasWidth, up.canvasHeight))))

\* createdElements: one image element per readable file; imageUrl is the
\* cloud URL, or the object URL of the file when uploadTemplateImage failed
RECURSIVE CreatedElements(_, _, _, _)
CreatedElements(up, imageUrl, index, acc) ==
    IF index >= Len(up.files) THEN acc
    ELSE LET size == up.files[index + 1]
         IN  CreatedElements(up, imageUrl, index + 1,
                 IF IsNaN(size.width) THEN acc
                 ELSE Append(acc, Element(Uuid(up.firstId + index), "image",
                                          ImageUrlOf(size, imageUrl),
                                 UploadRect(size, index, up.canvasWidth, up.canvasHeight))))

(***************************************************************************)
(* Inputs of the studio.                                                   *)
(***************************************************************************)
\* ids documents from outside carry
RemoteTemplateId == 1

RemoteElementId == 1

\* element candidates of imported and remote documents: inside the canvas,
\* wide, and with missing, negative, zero and oversized fields
\* a frame without a src key, a frame and elements of other kinds that
\* carry a src, and images whose src is a data URL or a cloud URL
RawInside ==
    [id |-> RemoteElementId, kind |-> "frame", x |-> 100, y |-> 100, width |-> 100, height |-> 100]

RawWide ==
    [id |-> RemoteElementId, kind |-> "frame", src |-> BlobUrl,
     x |-> 100, y |-> 100, width |-> 800, height |-> 100]

RawBroken ==
    [id |-> RemoteElementId, kind |-> "image", src |-> DataUrl,
     x |-> NaN, y |-> -7, width |-> 0, height |-> 5000]

RawAnonymous ==
    [id |-> NoId, kind |-> "other", src |-> CloudUrl,
     x |-> 5000, y |-> NaN, width |-> NaN, height |-> 47]

\* the time stamp documents from outside carry
RemoteTime == 1

RawTemplate(id, canvasWidth, canvasHeight, es) ==
    [id |-> id, canvasWidth |-> canvasWidth, canvasHeight |-> canvasHeight, elements |-> es,
     createdAt |-> RemoteTime, updatedAt |-> RemoteTime]

RawPortrait(es) ==
    RawTemplate(RemoteTemplateId, DEFAULT_CANVAS_WIDTH, DEFAULT_CANVAS_HEIGHT, es)

\* template candidates of imported and remote documents: the portrait
\* canvas without and with an element, and documents with missing and
\* out-of-range canvas sizes
RawTemplates ==
    { RawPortrait(<<>>),
      RawPortrait(<<RawInside>>),
      RawPortrait(<<RawWide>>),
      RawTemplate(RemoteTemplateId, NaN, 100, <<RawBroken>>),
      [RawTemplate(NoId, 5000, NaN, <<RawAnonymous>>)
          EXCEPT !.createdAt = NoTime, !.updatedAt = NoTime] }

\* what a remote snapshot delivers: nothing, one template, one template
\* with two elements, or two templates
RemoteSnapshots ==
    {<<>>} \cup { <<t>> : t \in RawTemplates }
    \cup { << RawPortrait(<<RawInside, RawAnonymous>>) >> }
    \cup { << RawPortrait(<<>>),
              RawTemplate(NoId, DEFAULT_CANVAS_HEIGHT, DEFAULT_CANVAS_WIDTH, <<>>) >> }

\* ids one sanitized template can consume: its own and its elements'
IdStride == 2

\* values typed into the x, y, width and height fields
PropertyInputs == {NaN, 5000}

RectFields == {"x", "y", "width", "height"}

\* pointer travel since the interaction began, in canvas units
Deltas == {-2000, 30, 2000}

Presets == {"portrait", "landscape"}

\* natural sizes of uploaded images
ImageSizes == { [width |-> 1000, height |-> 3000], [width |-> 10, height |-> 10], Unreadable }

MaxFiles == 2

FileLists == UNION { [1..n -> ImageSizes] : n \in 1..MaxFiles }

MaxStudioSteps == 3

\* handler runs explored where the page's pushes and their echoes are
\* followed, and where a second page is connected as well
MaxSyncSteps == 2

MaxPairSteps == 1

(***************************************************************************)
(* Handlers of the studio.  Each is followed by the render's effects,      *)
(* which repair activeTemplateId and selectedElementId.                    *)
(***************************************************************************)
ActiveIndex == TemplateIndex(templates, activeTemplateId)

HasActive == ActiveIndex # 0

ActiveTemplate == templates[ActiveIndex]

HasSelected == HasActive /\ selectedElementId # NoId /\ HasElement(ActiveTemplate, selectedElementId)

\* the time the page is mounted at
MountTime == 1

\* nowIso() in the handler or callback that runs next: time passes from
\* one input to the next
NowIso == MountTime + studioSteps + 1

\* JSON.stringify(templates): a key whose value is undefined is left out
JSONstringify(ts) ==
    [k \in 1..Len(ts) |->
        [ts[k] EXCEPT !.elements =
            [j \in 1..Len(ts[k].elements) |->
                LET e == ts[k].elements[j]
                IN  IF "src" \in DOMAIN e /\ e.src = Undefined
                    THEN [f \in DOMAIN e \ {"src"} |-> e[f]]
                    ELSE e]]]

\* lastCloudSerializedRef.current: null, or a string
NullSerialized == [isNull |-> TRUE, json |-> <<>>]

Serialized(ts) == [isNull |-> FALSE, json |-> JSONstringify(ts)]

NoTimer == 0

\* window.clearTimeout(id): a timer that fired or was cleared is not there
clearTimeout(timers, id) == SelectSeq(timers, LAMBDA t : t.id # id)

\* The save effect's run after a render that changed its dependencies:
\* the cleanup of its previous run, then its body.  The result is the
\* timers still pending and saveTimerRef.current.
saveEffectKeepsTimer(ts, ready, lastSerialized, timers, timerRef, timerId) ==
    IF ~ready \/ ts = <<>> \/ Serialized(ts) = lastSerialized
    THEN [timers |-> timers, timerRef |-> NoTimer]
    ELSE [timers |-> Append(timers, [id |-> timerId, templates |-> ts]),
          timerRef |-> timerId]

saveEffectKeepsFirst(ts, ready, lastSerialized, timers, timerRef, timerId) ==
    IF ~ready \/ ts = <<>> \/ Serialized(ts) = lastSerialized
    THEN [timers |-> clearTimeout(timers, timerRef), timerRef |-> NoTimer]
    ELSE IF timers # <<>> THEN [timers |-> timers, timerRef |-> timerRef]
    ELSE [timers |-> <<[id |-> timerId, templates |-> ts]>>, timerRef |-> timerId]

saveEffect(ts, ready, lastSerialized, timers, timerRef, timerId) ==
    LET cleaned == IF timerRef # NoTimer THEN clearTimeout(timers, timerRef) ELSE timers
    IN  IF ~ready \/ ts = <<>> \/ Serialized(ts) = lastSerialized
        THEN [timers |-> cleaned, timerRef |-> NoTimer]
        ELSE [timers |-> Append(cleaned, [id |-> timerId, templates |-> ts]),
              timerRef |-> timerId]

\* the state after a handler set templates, activeTemplateId and
\* selectedElementId to ts, active and selected, and left cloudReady,
\* lastCloudSerializedRef.current and syncState at ready, lastSerialized
\* and status: the save effect sets 'saving' when it arms its timer
Committed(ts, active, selected, ready, lastSerialized, status) ==
    /\ templates' = ts
    /\ activeTemplateId' = EffectActive(ts, active)
    /\ selectedElementId' = EffectSelected(ts, activeTemplateId', selected)
    /\ cloudReady' = ready
    /\ lastCloudSerializedRef' = lastSerialized
    /\ LET effect == saveEffect(ts, ready, lastSerialized, pendingTimers, saveTimerRef,
                                timerSeq + 1)
       IN  /\ pendingTimers' = effect.timers
           /\ saveTimerRef' = effect.timerRef
           /\ syncState' = IF effect.timerRef = NoTimer THEN status ELSE "saving"
           /\ timerSeq' = IF effect.timerRef = NoTimer THEN timerSeq ELSE timerSeq + 1
           /\ clearedTimers' = clearedTimers \cup
                  { pendingTimers[k].id : k \in { i \in 1..Len(pendingTimers) :
                        \A j \in 1..Len(effect.timers) :
                            effect.timers[j].id # pendingTimers[i].id } }
    /\ UNCHANGED <<saves, cloudDoc>>
    /\ UNCHANGED <<timeoutVars, layoutVars, geomVars, sceneVars, serialVars, histVars>>

\* a handler that called setTemplates
Rendered(ts, active, selected) ==
    /\ studioSteps < stepLimit
    /\ studioSteps' = studioSteps + 1
    /\ UNCHANGED stepLimit
    /\ Committed(ts, active, selected, cloudReady, lastCloudSerializedRef, syncState)
    /\ UNCHANGED netVars

\* a handler that left templates alone: the save effect does not run
Rerendered(active, selected) ==
    /\ studioSteps < stepLimit
    /\ studioSteps' = studioSteps + 1
    /\ UNCHANGED stepLimit
    /\ activeTemplateId' = EffectActive(templates, active)
    /\ selectedElementId' = EffectSelected(templates, activeTemplateId', selected)
    /\ UNCHANGED <<templates, syncVars, netVars>>
    /\ UNCHANGED <<timeoutVars, layoutVars, geomVars, sceneVars, serialVars, histVars>>

addPlaceholderElement(placeholderType) ==
    /\ lastHandler' = "addPlaceholderElement"
    /\ HasActive
    /\ LET t == ActiveTemplate
           config == PlaceholderRatio[placeholderType]
           width  == RoundDiv(t.canvasWidth * config.widthRatio, 100)
           height == RoundDiv(t.canvasHeight * config.heightRatio, 100)
           element == Element(Uuid(studioIds), "frame", Undefined,
                          [x |-> RoundDiv(t.canvasWidth - width, 2),
                           y |-> RoundDiv(t.canvasHeight - height, 2),
                           width |-> width, height |-> height])
           AddIt(tpl) == AppendElements(tpl, <<element>>)
       IN  Rendered(MapTemplate(templates, activeTemplateId,
                        [k \in 1..Len(templates) |-> Touch(AddIt(templates[k]), NowIso)]),
                    activeTemplateId, element.id)
    /\ studioIds' = studioIds + 1
    /\ UNCHANGED <<interaction, uploading>>

duplicateSelectedElement ==
    /\ lastHandler' = "duplicateSelectedElement"
    /\ HasSelected
    /\ LET t == ActiveTemplate
           e == FindElement(t, selectedElementId)
           shiftedRect == clampRectToCanvas(
                              [x |-> e.x + DUPLICATE_SHIFT, y |-> e.y + DUPLICATE_SHIFT,
                               width |-> e.width, height |-> e.height],
                              t.canvasWidth, t.canvasHeight)
           duplicated == [WithRect(e, shiftedRect) EXCEPT !.id = Uuid(studioIds)]
           AddIt(tpl) == AppendElements(tpl, <<duplicated>>)
       IN  Rendered(MapTemplate(templates, activeTemplateId,
                        [k \in 1..Len(templates) |-> Touch(AddIt(templates[k]), NowIso)]),
                    activeTemplateId, duplicated.id)
    /\ studioIds' = studioIds + 1
    /\ UNCHANGED <<interaction, uploading>>

\* a property field's onChange: Number(value) || 0 for x and y,
\* Number(value) || MIN_ELEMENT_SIZE for width and height
updateSelectedElement(field, typed) ==
    /\ lastHandler' = "updateSelectedElement"
    /\ selectedElementId # NoId
    /\ LET value == OrDefault(typed, IF field \in {"x", "y"} THEN 0 ELSE MIN_ELEMENT_SIZE)
           Change(tpl) ==
               LET Merge(e) ==
                       LET merged == [e EXCEPT ![field] = value]
                       IN  WithRect(merged, clampRectToCanvas(RectOf(merged),
                                               tpl.canvasWidth, tpl.canvasHeight))
               IN  MapElement(tpl, selectedElementId,
                       [j \in 1..Len(tpl.elements) |-> Merge(tpl.elements[j])])
       IN  Rendered(MapTemplate(templates, activeTemplateId,
                        [k \in 1..Len(templates) |-> Touch(Change(templates[k]), NowIso)]),
                    activeTemplateId, selectedElementId)
    /\ UNCHANGED <<interaction, uploading, studioIds>>

(***************************************************************************)
(* An element with its style fields.  Opacity is kept in hundredths.       *)
(***************************************************************************)
NoStyled == [pc |-> "idle"]

\* the border and radius addPlaceholderElement gives each placeholder type
PlaceholderStyle ==
    [generic   |-> [borderColor |-> "transparent", borderWidth |-> 3, borderStyle |-> "dashed", radius |-> 16],
     imageSlot |-> [borderColor |-> "#1f7a67", borderWidth |-> 3, borderStyle |-> "dashed", radius |-> 12],
     textMain  |-> [borderColor |-> "#1d4ed8", borderWidth |-> 2, borderStyle |-> "solid", radius |-> 10],
     textSub   |-> [borderColor |-> "#1d4ed8", borderWidth |-> 2, borderStyle |-> "dashed", radius |-> 10]]

\* the element addPlaceholderElement creates on a canvas
PlaceholderElement(placeholderType, canvasWidth, canvasHeight) ==
    LET config == PlaceholderRatio[placeholderType]
        style  == PlaceholderStyle[placeholderType]
        width  == RoundDiv(canvasWidth * config.widthRatio, 100)
        height == RoundDiv(canvasHeight * config.heightRatio, 100)
    IN  [id |-> Uuid(1), kind |-> "frame", src |-> Undefined,
         x |-> RoundDiv(canvasWidth - width, 2), y |-> RoundDiv(canvasHeight - height, 2),
         width |-> width, height |-> height,
         borderColor |-> style.borderColor, borderWidth |-> style.borderWidth,
         borderStyle |-> style.borderStyle, opacity |-> 100, radius |-> style.radius]

StyleFields == {"borderWidth", "opacity", "radius", "borderStyle", "borderColor"}

\* what a property field's onChange hands to updateSelectedElement for the
\* value typed: Number(value) || 0 for x, y, borderWidth and radius,
\* Number(value) || MIN_ELEMENT_SIZE for width and height, Number(value) || 0.1
\* for opacity; the style select and the colour input hand on a string
FieldInput(field, typed) ==
    IF field \in {"x", "y", "borderWidth", "radius"} THEN OrDefault(typed, 0)
    ELSE IF field \in {"width", "height"} THEN OrDefault(typed, MIN_ELEMENT_SIZE)
    ELSE IF field = "opacity" THEN OrDefault(typed, 10)
    ELSE typed

\* updateSelectedElement's map callback for the selected element
mergeChanges(element, field, value, canvasWidth, canvasHeight) ==
    LET merged == [element EXCEPT ![field] = value]
        r == clampRectToCanvas(RectOf(merged), canvasWidth, canvasHeight)
    IN  [WithRect(merged, r) EXCEPT
            !.borderStyle = IF merged.borderStyle = "solid" THEN "solid" ELSE "dashed",
            !.borderWidth = clamp(merged.borderWidth, 0, 16),
            !.opacity = clamp(merged.opacity, 10, 100),
            !.radius = clamp(merged.radius, 0, 80)]

\* sanitizeTemplateElement with the style fields
sanitizeStyledElement(candidate, canvasWidth, canvasHeight) ==
    LET e == sanitizeTemplateElement(candidate, canvasWidth, canvasHeight, Uuid(2))
    IN  [id |-> e.id, kind |-> e.kind, src |-> e.src,
         x |-> e.x, y |-> e.y, width |-> e.width, height |-> e.height,
         borderColor |-> candidate.borderColor,
         borderWidth |-> clamp(OrDefault(candidate.borderWidth, 2), 0, 16),
         borderStyle |-> IF candidate.borderStyle = "solid" THEN "solid" ELSE "dashed",
         opacity |-> clamp(OrDefault(candidate.opacity, 100), 10, 100),
         radius |-> clamp(OrDefault(candidate.radius, 14), 0, 80)]

\* values typed into the property fields
StyleInputs ==
    [x |-> {0, 500}, y |-> {0}, width |-> {100}, height |-> {5000},
     borderWidth |-> {0, 5, 40}, radius |-> {0, 30}, opacity |-> {NaN, 55},
     borderStyle |-> {"solid", "dashed"}, borderColor |-> {"#1f7a67"}]

MaxStyleEdits == 2

\* a property field of the selected element is edited
StyleEdit(field, typed) ==
    /\ styled.pc # "idle"
    /\ styled.edits < MaxStyleEdits
    /\ styled' = [styled EXCEPT
                     !.pc = "edited",
                     !.edits = @ + 1,
                     !.element = mergeChanges(styled.element, field, FieldInput(field, typed),
                                              styled.canvas.w, styled.canvas.h)]
    /\ UNCHANGED <<wrapped, layoutVars, geomVars, sceneVars, serialVars, histVars, studioVars,
                   syncVars, netVars>>

\* the template comes back through sanitizeTemplate: as an imported file
\* or as the snapshot that echoes a push
StyleSanitize ==
    /\ styled.pc \in {"placed", "edited"}
    /\ LET canvasWidth  == clamp(OrDefault(styled.canvas.w, DEFAULT_CANVAS_WIDTH),
                                  CANVAS_MIN_WIDTH, CANVAS_MAX)
           canvasHeight == clamp(OrDefault(styled.canvas.h, DEFAULT_CANVAS_HEIGHT),
                                  CANVAS_MIN_HEIGHT, CANVAS_MAX)
       IN  styled' = [styled EXCEPT
                        !.pc = "sanitized",
                        !.sanitizedCanvas = [w |-> canvasWidth, h |-> canvasHeight],
                        !.sanitized = sanitizeStyledElement(styled.element, canvasWidth,
                                                            canvasHeight)]
    /\ UNCHANGED <<wrapped, layoutVars, geomVars, sceneVars, serialVars, histVars, studioVars,
                   syncVars, netVars>>

\* mutant of setCanvasPreset: the elements keep their rects
setCanvasPresetKeepsRects(preset) ==
    /\ lastHandler' = "setCanvasPreset"
    /\ LET width  == IF preset = "portrait" THEN DEFAULT_CANVAS_WIDTH ELSE DEFAULT_CANVAS_HEIGHT
           height == IF preset = "portrait" THEN DEFAULT_CANVAS_HEIGHT ELSE DEFAULT_CANVAS_WIDTH
           Resize(tpl) ==
               IF tpl.canvasWidth = width /\ tpl.canvasHeight = height THEN tpl
               ELSE [tpl EXCEPT
                        !.canvasWidth = width,
                        !.canvasHeight = height,
                        !.elements = tpl.elements]
       IN  Rendered(MapTemplate(templates, activeTemplateId,
                        [k \in 1..Len(templates) |-> Touch(Resize(templates[k]), NowIso)]),
                    activeTemplateId, selectedElementId)
    /\ UNCHANGED <<interaction, uploading, studioIds>>

\* mutant of setCanvasPreset: every element is pushed against the right edge
setCanvasPresetAnchorsRight(preset) ==
    /\ lastHandler' = "setCanvasPreset"
    /\ LET width  == IF preset = "portrait" THEN DEFAULT_CANVAS_WIDTH ELSE DEFAULT_CANVAS_HEIGHT
           height == IF preset = "portrait" THEN DEFAULT_CANVAS_HEIGHT ELSE DEFAULT_CANVAS_WIDTH
           Resize(tpl) ==
               IF tpl.canvasWidth = width /\ tpl.canvasHeight = height THEN tpl
               ELSE [tpl EXCEPT
                        !.canvasWidth = width,
                        !.canvasHeight = height,
                        !.elements = [i \in 1..Len(tpl.elements) |->
                                         WithRect(tpl.elements[i],
                                             clampRectToCanvas(
                                                 [RectOf(tpl.elements[i]) EXCEPT !.x = width],
                                                 width, height))]]
       IN  Rendered(MapTemplate(templates, activeTemplateId,
                        [k \in 1..Len(templates) |-> Touch(Resize(templates[k]), NowIso)]),
                    activeTemplateId, selectedElementId)
    /\ UNCHANGED <<interaction, uploading, studioIds>>

setCanvasPreset(preset) ==
    /\ lastHandler' = "setCanvasPreset"
    /\ LET width  == IF preset = "portrait" THEN DEFAULT_CANVAS_WIDTH ELSE DEFAULT_CANVAS_HEIGHT
           height == IF preset = "portrait" THEN DEFAULT_CANVAS_HEIGHT ELSE DEFAULT_CANVAS_WIDTH
           Resize(tpl) ==
               IF tpl.canvasWidth = width /\ tpl.canvasHeight = height THEN tpl
               ELSE [tpl EXCEPT
                        !.canvasWidth = width,
                        !.canvasHeight = height,
                        !.elements = [i \in 1..Len(tpl.elements) |->
                                         WithRect(tpl.elements[i],
                                             clampRectToCanvas(RectOf(tpl.elements[i]),
                                                               width, height))]]
       IN  Rendered(MapTemplate(templates, activeTemplateId,
                        [k \in 1..Len(templates) |-> Touch(Resize(templates[k]), NowIso)]),
                    activeTemplateId, selectedElementId)
    /\ UNCHANGED <<interaction, uploading, studioIds>>

\* [...elements] with splice(from, 1) and splice(to, 0, moving): indices from 1
MoveElement(es, from, to) ==
    LET rest == [k \in 1..(Len(es) - 1) |-> IF k < from THEN es[k] ELSE es[k + 1]]
    IN  [k \in 1..Len(es) |->
            IF k < to THEN rest[k] ELSE IF k = to THEN es[from] ELSE rest[k - 1]]

\* the name a call of moveSelectedLayer is recorded under
LayerHandler(direction) ==
    IF direction = "forward" THEN "moveSelectedLayer(forward)" ELSE "moveSelectedLayer(backward)"

\* mutant of moveSelectedLayer: the element goes all the way to the front or
\* to the back
moveSelectedLayerToEnd(direction) ==
    /\ lastHandler' = LayerHandler(direction)
    /\ IF selectedElementId = NoId
       THEN Rerendered(activeTemplateId, selectedElementId)
       ELSE LET Reorder(tpl) ==
                    IF ~HasElement(tpl, selectedElementId) THEN tpl
                    ELSE LET currentIndex == ElementIndex(tpl, selectedElementId)
                             targetIndex ==
                                 IF direction = "forward" THEN Len(tpl.elements) ELSE 1
                         IN  IF targetIndex = currentIndex THEN tpl
                             ELSE [tpl EXCEPT !.elements =
                                      MoveElement(tpl.elements, currentIndex, targetIndex)]
            IN  Rendered(MapTemplate(templates, activeTemplateId,
                             [k \in 1..Len(templates) |-> Touch(Reorder(templates[k]), NowIso)]),
                         activeTemplateId, selectedElementId)
    /\ UNCHANGED <<interaction, uploading, studioIds>>

\* moveSelectedLayer returns at once without a selection; otherwise it
\* goes through updateActiveTemplate, which sets updatedAt on whatever the
\* updater returns
moveSelectedLayer(direction) ==
    /\ lastHandler' = LayerHandler(direction)
    /\ IF selectedElementId = NoId
       THEN Rerendered(activeTemplateId, selectedElementId)
       ELSE LET Reorder(tpl) ==
                    IF ~HasElement(tpl, selectedElementId) THEN tpl
                    ELSE LET currentIndex == ElementIndex(tpl, selectedElementId)
                             targetIndex ==
                                 IF direction = "forward"
                                 THEN MathMin(Len(tpl.elements), currentIndex + 1)
                                 ELSE MathMax(1, currentIndex - 1)
                         IN  IF targetIndex = currentIndex THEN tpl
                             ELSE [tpl EXCEPT !.elements =
                                      MoveElement(tpl.elements, currentIndex, targetIndex)]
            IN  Rendered(MapTemplate(templates, activeTemplateId,
                             [k \in 1..Len(templates) |-> Touch(Reorder(templates[k]), NowIso)]),
                         activeTemplateId, selectedElementId)
    /\ UNCHANGED <<interaction, uploading, studioIds>>

\* a click on a template card
selectTemplate(i) ==
    /\ lastHandler' = "selectTemplate"
    /\ Rerendered(templates[i].id, NoId)
    /\ UNCHANGED <<interaction, uploading, studioIds>>

startMove(elementId) ==
    /\ lastHandler' = "startMove"
    /\ HasActive
    /\ HasElement(ActiveTemplate, elementId)
    /\ interaction' = [mode |-> "move", elementId |-> elementId, handle |-> "se",
                       startRect |-> RectOf(FindElement(ActiveTemplate, elementId))]
    /\ Rerendered(activeTemplateId, elementId)
    /\ UNCHANGED <<uploading, studioIds>>

startResize(elementId, handle) ==
    /\ lastHandler' = "startResize"
    /\ HasActive
    /\ HasElement(ActiveTemplate, elementId)
    /\ interaction' = [mode |-> "resize", elementId |-> elementId, handle |-> handle,
                       startRect |-> RectOf(FindElement(ActiveTemplate, elementId))]
    /\ Rerendered(activeTemplateId, elementId)
    /\ UNCHANGED <<uploading, studioIds>>

\* the window's pointermove listener, registered while an interaction is on
handlePointerMove(deltaX, deltaY) ==
    /\ lastHandler' = "handlePointerMove"
    /\ interaction.mode # "none"
    /\ LET Track(tpl) ==
               LET Follow(e) ==
                       IF interaction.mode = "move"
                       THEN [e EXCEPT
                                !.x = clamp(interaction.startRect.x + deltaX, 0,
                                            tpl.canvasWidth - interaction.startRect.width),
                                !.y = clamp(interaction.startRect.y + deltaY, 0,
                                            tpl.canvasHeight - interaction.startRect.height)]
                       ELSE WithRect(e, resizeRectFromHandle(interaction.handle,
                                            interaction.startRect, deltaX, deltaY,
                                            tpl.canvasWidth, tpl.canvasHeight))
               IN  MapElement(tpl, interaction.elementId,
                       [j \in 1..Len(tpl.elements) |-> Follow(tpl.elements[j])])
       IN  Rendered(MapTemplate(templates, activeTemplateId,
                        [k \in 1..Len(templates) |-> Touch(Track(templates[k]), NowIso)]),
                    activeTemplateId, selectedElementId)
    /\ UNCHANGED <<interaction, uploading, studioIds>>

\* pointerup or pointercancel
endInteraction ==
    /\ lastHandler' = "endInteraction"
    /\ interaction.mode # "none"
    /\ interaction' = NoInteraction
    /\ Rerendered(activeTemplateId, selectedElementId)
    /\ UNCHANGED <<uploading, studioIds>>

\* handleUploadTemplateImages up to its first await: the handler keeps the
\* active template it was created with
UploadStart(files) ==
    /\ lastHandler' = "UploadStart"
    /\ uploading = NoUpload
    /\ HasActive
    /\ uploading' = [templateId |-> activeTemplateId,
                     canvasWidth |-> ActiveTemplate.canvasWidth,
                     canvasHeight |-> ActiveTemplate.canvasHeight,
                     files |-> files, firstId |-> studioIds]
    /\ studioIds' = studioIds + Len(files)
    /\ Rerendered(activeTemplateId, selectedElementId)
    /\ UNCHANGED interaction

\* handleUploadTemplateImages after its last await; imageUrl is what the
\* files of this call were stored under
UploadComplete(imageUrl) ==
    /\ lastHandler' = "UploadComplete"
    /\ uploading # NoUpload
    /\ LET createdElements == CreatedElements(uploading, imageUrl, 0, <<>>)
           AddThem(tpl) == AppendElements(tpl, createdElements)
       IN  IF createdElements = <<>>
           THEN Rerendered(activeTemplateId, selectedElementId)
           ELSE Rendered(MapTemplate(templates, uploading.templateId,
                        [k \in 1..Len(templates) |-> Touch(AddThem(templates[k]), NowIso)]),
                         activeTemplateId,
                         createdElements[Len(createdElements)].id)
    /\ uploading' = NoUpload
    /\ UNCHANGED <<interaction, studioIds>>

importTemplate(parsed) ==
    /\ lastHandler' = "importTemplate"
    /\ LET imported == sanitizeTemplate(parsed, studioIds, NowIso)
           template == [imported EXCEPT !.id = Uuid(studioIds + IdStride),
                                        !.createdAt = NowIso, !.updatedAt = NowIso]
       IN  Rendered(Append(templates, template), template.id, NoId)
    /\ studioIds' = studioIds + IdStride + 1
    /\ UNCHANGED <<interaction, uploading>>

\* the JSON value null, as the document itself or as one of its elements
JsonNull == [null |-> TRUE]

\* sanitizeTemplate(candidate, index) throws a TypeError: it reads
\* properties of the candidate, and sanitizeTemplateElement reads
\* properties of each entry of candidate.elements
sanitizeThrows(candidate) ==
    IF candidate = JsonNull
    THEN TRUE
    ELSE \E k \in 1..Len(candidate.elements) : candidate.elements[k] = JsonNull

\* the try block of importTemplate throws: file.text() rejects,
\* JSON.parse does not accept the text, or sanitizeTemplate throws
ImportThrows(file) ==
    IF file.readable /\ file.wellFormed THEN sanitizeThrows(file.value) ELSE TRUE

\* a rejected import that had already cleared the selection
importTemplateRejectedLate(file) ==
    /\ ImportThrows(file)
    /\ lastHandler' = "importTemplateRejected"
    /\ Rerendered(activeTemplateId, NoId)
    /\ UNCHANGED <<interaction, uploading, studioIds>>

\* importTemplate with a file whose import throws: the catch block logs
\* the error and shows an alert; no setter has run
importTemplateRejected(file) ==
    /\ ImportThrows(file)
    /\ lastHandler' = "importTemplateRejected"
    /\ Rerendered(activeTemplateId, selectedElementId)
    /\ UNCHANGED <<interaction, uploading, studioIds>>

createTemplate ==
    /\ lastHandler' = "createTemplate"
    /\ LET newTemplate == createBlankTemplate(Uuid(studioIds), NowIso)
       IN  Rendered(Append(templates, newTemplate), newTemplate.id, NoId)
    /\ studioIds' = studioIds + 1
    /\ UNCHANGED <<interaction, uploading>>

duplicateTemplate ==
    /\ lastHandler' = "duplicateTemplate"
    /\ HasActive
    /\ LET t == ActiveTemplate
           duplicated == [t EXCEPT !.id = Uuid(studioIds),
                                   !.createdAt = NowIso, !.updatedAt = NowIso,
                                   !.elements = [k \in 1..Len(t.elements) |->
                                       [t.elements[k] EXCEPT !.id = Uuid(studioIds + k)]]]
       IN  /\ Rendered(Append(templates, duplicated), duplicated.id, NoId)
           /\ studioIds' = studioIds + 1 + Len(t.elements)
    /\ UNCHANGED <<interaction, uploading>>

\* deleteActiveTemplate that filters the list whatever its length
deleteActiveTemplateNoFallback(confirmed) ==
    /\ lastHandler' = "deleteActiveTemplate"
    /\ HasActive
    /\ IF ~confirmed
       THEN Rerendered(activeTemplateId, selectedElementId)
       ELSE Rendered(SelectSeq(templates, LAMBDA t : t.id # activeTemplateId),
                     activeTemplateId, NoId)
    /\ studioIds' = studioIds
    /\ UNCHANGED <<interaction, uploading>>

\* deleteActiveTemplate, confirmed: the answer to window.confirm
deleteActiveTemplate(confirmed) ==
    /\ lastHandler' = "deleteActiveTemplate"
    /\ HasActive
    /\ IF ~confirmed
       THEN /\ Rerendered(activeTemplateId, selectedElementId)
            /\ studioIds' = studioIds
       ELSE IF Len(templates) <= 1
       THEN LET fallback == createBlankTemplate(Uuid(studioIds), NowIso)
            IN  /\ Rendered(<<fallback>>, fallback.id, NoId)
                /\ studioIds' = studioIds + 1
       ELSE /\ Rendered(SelectSeq(templates, LAMBDA t : t.id # activeTemplateId),
                        activeTemplateId, NoId)
            /\ studioIds' = studioIds
    /\ UNCHANGED <<interaction, uploading>>

\* what the subscribeStudioTemplates callback makes of a snapshot, with
\* fresh ids from ids on and nowIso() = now
SnapshotTemplates(remoteTemplates, ids, now) ==
    IF remoteTemplates # <<>>
    THEN [k \in 1..Len(remoteTemplates) |->
             sanitizeTemplate(remoteTemplates[k], ids + (k - 1) * IdStride, now)]
    ELSE <<createBlankTemplate(Uuid(ids), now)>>

snapshotSerializedAlwaysEmpty(remoteTemplates, sanitized) == Serialized(<<>>)

\* what the callback leaves in lastCloudSerializedRef.current
SnapshotSerialized(remoteTemplates, sanitized) ==
    IF remoteTemplates # <<>> THEN Serialized(sanitized) ELSE Serialized(<<>>)

\* a template or an element of the snapshot comes without an id
LacksIds(remoteTemplates) ==
    \E k \in 1..Len(remoteTemplates) :
        \/ remoteTemplates[k].id = NoId
        \/ \E j \in 1..Len(remoteTemplates[k].elements) :
               remoteTemplates[k].elements[j].id = NoId

\* ids set aside for the callback's createId() calls
SnapshotIds(remoteTemplates) ==
    IF remoteTemplates = <<>> THEN IdStride
    ELSE IF LacksIds(remoteTemplates) THEN IdStride * Len(remoteTemplates)
    ELSE 0

\* the subscribeStudioTemplates callback for a snapshot
RemoteSnapshot(remoteTemplates) ==
    /\ lastHandler' = "RemoteSnapshot"
    /\ LET sanitized == SnapshotTemplates(remoteTemplates, studioIds, NowIso)
       IN  Committed(sanitized, activeTemplateId, selectedElementId, TRUE,
                     SnapshotSerialized(remoteTemplates, sanitized), "synced")
    /\ studioIds' = studioIds + SnapshotIds(remoteTemplates)
    /\ UNCHANGED <<interaction, uploading>>

\* the document was changed from outside
RemoteChange(remoteTemplates) ==
    /\ studioSteps < stepLimit
    /\ studioSteps' = studioSteps + 1
    /\ UNCHANGED stepLimit
    /\ RemoteSnapshot(remoteTemplates)
    /\ UNCHANGED netVars

\* the subscription delivers the document as it was opened with or as a
\* setDoc call left it
SnapshotDelivered ==
    /\ inbox # <<>>
    /\ RemoteSnapshot(Head(inbox))
    /\ inbox' = Tail(inbox)
    /\ UNCHANGED <<peer, studioSteps, stepLimit>>

\* the subscribeStudioTemplates callback for an error
SubscriptionError ==
    /\ lastHandler' = "SubscriptionError"
    /\ ~cloudReady
    /\ Committed(templates, activeTemplateId, selectedElementId, TRUE, lastCloudSerializedRef,
                 "error")
    /\ UNCHANGED <<interaction, uploading, studioIds, studioSteps, stepLimit, netVars>>

\* element.src, undefined when the key is missing
SrcOf(element) == IF "src" \in DOMAIN element THEN element.src ELSE Undefined

\* the element without its src key
WithoutSrc(element) == [f \in DOMAIN element \ {"src"} |-> element[f]]

IsLocalOnly(src) == StartsWith(src, "data:") \/ StartsWith(src, "blob:")

stripBlobOnly(ts) ==
    [k \in 1..Len(ts) |->
        [ts[k] EXCEPT !.elements =
            [j \in 1..Len(ts[k].elements) |->
                LET element == ts[k].elements[j]
                IN  IF element.kind # "image" \/ SrcOf(element) \in {Undefined, EmptyString}
                    THEN element
                    ELSE IF ~StartsWith(element.src, "blob:") THEN element
                    ELSE WithoutSrc(element)]]]

stripLocalOnlySources(ts) ==
    [k \in 1..Len(ts) |->
        [ts[k] EXCEPT !.elements =
            [j \in 1..Len(ts[k].elements) |->
                LET element == ts[k].elements[j]
                IN  IF element.kind # "image" \/ SrcOf(element) \in {Undefined, EmptyString}
                    THEN element
                    ELSE IF ~IsLocalOnly(element.src) THEN element
                    ELSE WithoutSrc(element)]]]

\* the document Firestore keeps and sends out for a list it accepted: a
\* key whose value is undefined is not stored
StoredTemplates(ts) == JSONstringify(ts)

\* the save timer's callback up to the await: saveStudioTemplates strips
\* the list and hands it to setDoc, which takes the write or refuses it
SaveTimerFires(k, accepted) ==
    /\ LET timer == pendingTimers[k]
       IN  /\ pendingTimers' = clearTimeout(pendingTimers, timer.id)
           /\ cloudDoc' = stripLocalOnlySources(timer.templates)
           /\ saves' = Append(saves, [timerId |-> timer.id,
                                      templates |-> timer.templates,
                                      serializedTemplates |-> Serialized(timer.templates),
                                      accepted |-> accepted])
           /\ inbox' = IF accepted THEN Append(inbox, StoredTemplates(cloudDoc')) ELSE inbox
           /\ peer' = IF accepted /\ peer.connected
                      THEN [peer EXCEPT !.inbox = Append(@, StoredTemplates(cloudDoc'))]
                      ELSE peer
    /\ UNCHANGED <<templates, activeTemplateId, selectedElementId, interaction, uploading,
                   studioIds, studioSteps, stepLimit, cloudReady, syncState,
                   lastCloudSerializedRef, saveTimerRef, timerSeq, clearedTimers>>
    /\ lastHandler' = "saveTimer"
    /\ UNCHANGED <<timeoutVars, layoutVars, geomVars, sceneVars, serialVars, histVars>>

\* a save timer callback whose catch block arms the timer again
SaveSettlesRetries(k, resolved) ==
    /\ resolved => saves[k].accepted
    /\ saves' = RemoveAt(saves, k)
    /\ lastCloudSerializedRef' =
           IF resolved THEN saves[k].serializedTemplates ELSE lastCloudSerializedRef
    /\ syncState' = IF resolved THEN "synced" ELSE "error"
    /\ pendingTimers' =
           IF resolved THEN pendingTimers
           ELSE Append(pendingTimers, [id |-> timerSeq + 1, templates |-> saves[k].templates])
    /\ timerSeq' = IF resolved THEN timerSeq ELSE timerSeq + 1
    /\ UNCHANGED <<templates, activeTemplateId, selectedElementId, interaction, uploading,
                   studioIds, studioSteps, stepLimit, cloudReady, saveTimerRef, cloudDoc,
                   clearedTimers, netVars>>
    /\ lastHandler' = IF resolved THEN "saveResolved" ELSE "saveFailed"
    /\ UNCHANGED <<timeoutVars, layoutVars, geomVars, sceneVars, serialVars, histVars>>

\* the save timer's callback after the await: setDoc resolved, or it
\* rejected or ran into SAVE_TEMPLATES_TIMEOUT_MS
SaveSettles(k, resolved) ==
    /\ resolved => saves[k].accepted
    /\ saves' = RemoveAt(saves, k)
    /\ lastCloudSerializedRef' =
           IF resolved THEN saves[k].serializedTemplates ELSE lastCloudSerializedRef
    /\ syncState' = IF resolved THEN "synced" ELSE "error"
    /\ UNCHANGED <<templates, activeTemplateId, selectedElementId, interaction, uploading,
                   studioIds, studioSteps, stepLimit, cloudReady, saveTimerRef, pendingTimers, timerSeq, cloudDoc,
                   clearedTimers, netVars>>
    /\ lastHandler' = IF resolved THEN "saveResolved" ELSE "saveFailed"
    /\ UNCHANGED <<timeoutVars, layoutVars, geomVars, sceneVars, serialVars, histVars>>

(***************************************************************************)
(* A second studio page subscribed to the same document.  Nobody edits on  *)
(* it: it applies the snapshots it is sent and runs its save effect.       *)
(***************************************************************************)
\* ids createId() hands out on the second page
PeerIdBase == 50

NoPeer ==
    [connected |-> FALSE, templates |-> <<>>, ids |-> PeerIdBase, timerSeq |-> 0,
     cloudReady |-> FALSE, lastSerialized |-> NullSerialized,
     timerRef |-> NoTimer, timers |-> <<>>, saves |-> <<>>, inbox |-> <<>>]

\* the second page after mount, subscribed to a document that holds doc
PeerMounted(doc) ==
    [NoPeer EXCEPT !.connected = TRUE,
                   !.templates = <<createBlankTemplate(Uuid(PeerIdBase), MountTime)>>,
                   !.ids = PeerIdBase + 1,
                   !.inbox = <<doc>>]

clientVars ==
    <<templates, activeTemplateId, selectedElementId, interaction, uploading,
      studioIds, studioSteps, stepLimit, cloudReady, syncState, lastCloudSerializedRef,
      saveTimerRef, pendingTimers, timerSeq, saves, clearedTimers, lastHandler>>

\* the subscribeStudioTemplates callback on the second page
PeerSnapshotDelivered ==
    /\ peer.inbox # <<>>
    /\ LET remoteTemplates == Head(peer.inbox)
           sanitized == SnapshotTemplates(remoteTemplates, peer.ids, NowIso)
           lastSerialized == SnapshotSerialized(remoteTemplates, sanitized)
           effect == saveEffect(sanitized, TRUE, lastSerialized, peer.timers,
                                peer.timerRef, peer.timerSeq + 1)
       IN  peer' = [peer EXCEPT !.inbox = Tail(@),
                                !.templates = sanitized,
                                !.ids = @ + SnapshotIds(remoteTemplates),
                                !.timerSeq = IF effect.timerRef = NoTimer THEN @ ELSE @ + 1,
                                !.cloudReady = TRUE,
                                !.lastSerialized = lastSerialized,
                                !.timers = effect.timers,
                                !.timerRef = effect.timerRef]
    /\ UNCHANGED <<clientVars, cloudDoc, inbox>>
    /\ UNCHANGED <<timeoutVars, layoutVars, geomVars, sceneVars, serialVars, histVars>>

\* the second page's save timer callback up to the await
PeerSaveTimerFires(k, accepted) ==
    /\ LET timer == peer.timers[k]
           written == StoredTemplates(cloudDoc')
       IN  /\ cloudDoc' = stripLocalOnlySources(timer.templates)
           /\ inbox' = IF accepted THEN Append(inbox, written) ELSE inbox
           /\ peer' = [peer EXCEPT !.timers = clearTimeout(@, timer.id),
                                    !.saves = Append(@, [serializedTemplates |->
                                                             Serialized(timer.templates),
                                                         accepted |-> accepted]),
                                    !.inbox = IF accepted THEN Append(@, written) ELSE @]
    /\ UNCHANGED clientVars
    /\ UNCHANGED <<timeoutVars, layoutVars, geomVars, sceneVars, serialVars, histVars>>

\* the second page's save timer callback after the await
PeerSaveSettles(k, resolved) ==
    /\ resolved => peer.saves[k].accepted
    /\ peer' = [peer EXCEPT !.saves = RemoveAt(@, k),
                             !.lastSerialized =
                                 IF resolved THEN peer.saves[k].serializedTemplates ELSE @]
    /\ UNCHANGED <<clientVars, cloudDoc, inbox>>
    /\ UNCHANGED <<timeoutVars, layoutVars, geomVars, sceneVars, serialVars, histVars>>

\* ids of the elements on the canvas
StudioElementIds ==
    IF HasActive
    THEN { ActiveTemplate.elements[i].id : i \in 1..Len(ActiveTemplate.elements) }
    ELSE {}

(***************************************************************************)
(* Specifications.                                                         *)
(***************************************************************************)
\* clampRectToCanvas on arbitrary rects
InitSpecGeom ==
    /\ rectIn \in [x : RectInputs, y : RectInputs, width : RectInputs, height : RectInputs]
    /\ rect = rectIn
    /\ prevRect = rectIn
    /\ bounds \in CanvasSizes
    /\ clampCalls = 0 /\ drag = NoDrag
    /\ canvasObjs = <<>> /\ nextId = 1 /\ edits = 0
    /\ externalDoc = NoDoc /\ storedJSON = NoDoc /\ storedScene = <<>> /\ lastCall = NoCall
    /\ historyRef = <<>> /\ indexRef = -1 /\ isRestoringRef = FALSE /\ loads = <<>>
    /\ mounted = FALSE /\ restores = 0 /\ script = 0
    /\ templates = <<>> /\ activeTemplateId = NoId /\ selectedElementId = NoId
    /\ interaction = NoInteraction /\ uploading = NoUpload
    /\ studioIds = 1 /\ studioSteps = 0 /\ stepLimit = 0 /\ timerSeq = 0
    /\ syncState = "connecting"
    /\ cloudReady = FALSE /\ lastCloudSerializedRef = NullSerialized
    /\ saveTimerRef = NoTimer /\ pendingTimers = <<>> /\ saves = <<>> /\ cloudDoc = <<>>
    /\ clearedTimers = {} /\ lastHandler = "none"
    /\ inbox = <<>> /\ peer = NoPeer
    /\ wrapped = <<>> /\ styled = NoStyled
    /\ layoutRun = NoRun /\ placements = <<>> /\ pageReady = NoReady

NextGeom == ClampRect

SpecGeom == InitSpecGeom /\ [][NextGeom]_vars

\* resizeRectFromHandle on the rects and canvases of a resize drag
InitSpecResize ==
    /\ rectIn \in ResizeStarts
    /\ rect = rectIn
    /\ prevRect = rectIn
    /\ bounds \in ResizeCanvases
    /\ clampCalls = 0 /\ drag = NoDrag
    /\ canvasObjs = <<>> /\ nextId = 1 /\ edits = 0
    /\ externalDoc = NoDoc /\ storedJSON = NoDoc /\ storedScene = <<>> /\ lastCall = NoCall
    /\ historyRef = <<>> /\ indexRef = -1 /\ isRestoringRef = FALSE /\ loads = <<>>
    /\ mounted = FALSE /\ restores = 0 /\ script = 0
    /\ templates = <<>> /\ activeTemplateId = NoId /\ selectedElementId = NoId
    /\ interaction = NoInteraction /\ uploading = NoUpload
    /\ studioIds = 1 /\ studioSteps = 0 /\ stepLimit = 0 /\ timerSeq = 0
    /\ syncState = "connecting"
    /\ cloudReady = FALSE /\ lastCloudSerializedRef = NullSerialized
    /\ saveTimerRef = NoTimer /\ pendingTimers = <<>> /\ saves = <<>> /\ cloudDoc = <<>>
    /\ clearedTimers = {} /\ lastHandler = "none"
    /\ inbox = <<>> /\ peer = NoPeer
    /\ wrapped = <<>> /\ styled = NoStyled
    /\ layoutRun = NoRun /\ placements = <<>> /\ pageReady = NoReady

NextResize ==
    \E handle \in Handles, deltaX \in ResizeDeltas, deltaY \in ResizeDeltas :
        ResizeRect(handle, deltaX, deltaY)

SpecResize == InitSpecResize /\ [][NextResize]_vars

\* the editor canvas with its store and the document it is opened with
InitSpecSerial ==
    /\ rectIn = IdleRect /\ rect = IdleRect /\ prevRect = IdleRect
    /\ bounds = IdleBounds /\ clampCalls = 0 /\ drag = NoDrag
    /\ canvasObjs = <<>> /\ nextId = 1 /\ edits = 0
    /\ externalDoc \in ExternalDocs
    /\ storedJSON = NoDoc /\ storedScene = <<>> /\ lastCall = NoCall
    /\ historyRef = <<>> /\ indexRef = -1 /\ isRestoringRef = FALSE /\ loads = <<>>
    /\ mounted = FALSE /\ restores = 0 /\ script = 0
    /\ templates = <<>> /\ activeTemplateId = NoId /\ selectedElementId = NoId
    /\ interaction = NoInteraction /\ uploading = NoUpload
    /\ studioIds = 1 /\ studioSteps = 0 /\ stepLimit = 0 /\ timerSeq = 0
    /\ syncState = "connecting"
    /\ cloudReady = FALSE /\ lastCloudSerializedRef = NullSerialized
    /\ saveTimerRef = NoTimer /\ pendingTimers = <<>> /\ saves = <<>> /\ cloudDoc = <<>>
    /\ clearedTimers = {} /\ lastHandler = "none"
    /\ inbox = <<>> /\ peer = NoPeer
    /\ wrapped = <<>> /\ styled = NoStyled
    /\ layoutRun = NoRun /\ placements = <<>> /\ pageReady = NoReady

NextSerial ==
    \/ SerAddText
    \/ \E src \in Srcs : SerAddImage(src)
    \/ \E i \in 1..Len(canvasObjs) : SerRemove(i)
    \/ \E i \in 1..Len(canvasObjs) : SerDrag(i)
    \/ SyncToStore
    \/ DeserializeStored
    \/ DeserializeExternal

SpecSerial == InitSpecSerial /\ [][NextSerial]_vars

\* the editor opened with a document of nested groups
InitSpecPrune ==
    /\ rectIn = IdleRect /\ rect = IdleRect /\ prevRect = IdleRect
    /\ bounds = IdleBounds /\ clampCalls = 0 /\ drag = NoDrag
    /\ canvasObjs = <<>> /\ nextId = 1 /\ edits = 0
    /\ externalDoc \in PruneDocs
    /\ storedJSON = NoDoc /\ storedScene = <<>> /\ lastCall = NoCall
    /\ historyRef = <<>> /\ indexRef = -1 /\ isRestoringRef = FALSE /\ loads = <<>>
    /\ mounted = FALSE /\ restores = 0 /\ script = 0
    /\ templates = <<>> /\ activeTemplateId = NoId /\ selectedElementId = NoId
    /\ interaction = NoInteraction /\ uploading = NoUpload
    /\ studioIds = 1 /\ studioSteps = 0 /\ stepLimit = 0 /\ timerSeq = 0
    /\ syncState = "connecting"
    /\ cloudReady = FALSE /\ lastCloudSerializedRef = NullSerialized
    /\ saveTimerRef = NoTimer /\ pendingTimers = <<>> /\ saves = <<>> /\ cloudDoc = <<>>
    /\ clearedTimers = {} /\ lastHandler = "none"
    /\ inbox = <<>> /\ peer = NoPeer
    /\ wrapped = <<>> /\ styled = NoStyled
    /\ layoutRun = NoRun /\ placements = <<>> /\ pageReady = NoReady

NextPrune ==
    \/ SerAddText
    \/ DeserializeExternal

SpecPrune == InitSpecPrune /\ [][NextPrune]_vars

\* the editor canvas with its undo / redo history: a fresh canvas, or a long
\* session (mounted, one text added and then dragged until the history
\* holds HISTORY_LIMIT - 1 entries)
InitSpecHistory ==
    /\ rectIn = IdleRect /\ rect = IdleRect /\ prevRect = IdleRect
    /\ bounds = IdleBounds /\ clampCalls = 0 /\ drag = NoDrag
    /\ externalDoc = NoDoc /\ storedJSON = NoDoc /\ storedScene = <<>> /\ lastCall = NoCall
    /\ isRestoringRef = FALSE /\ loads = <<>> /\ restores = 0 /\ edits = 0
    /\ \E long \in BOOLEAN :
          /\ mounted = long
          /\ canvasObjs = IF long THEN LongSessionScene(HISTORY_LIMIT - 1) ELSE <<>>
          /\ nextId = IF long THEN 2 ELSE 1
          /\ historyRef = IF long
                          THEN [k \in 1..(HISTORY_LIMIT - 1) |-> Snapshot(LongSessionScene(k))]
                          ELSE <<>>
          /\ indexRef = Len(historyRef) - 1
          /\ script = IF long THEN ScenarioOff ELSE 0
    /\ templates = <<>> /\ activeTemplateId = NoId /\ selectedElementId = NoId
    /\ interaction = NoInteraction /\ uploading = NoUpload
    /\ studioIds = 1 /\ studioSteps = 0 /\ stepLimit = 0 /\ timerSeq = 0
    /\ syncState = "connecting"
    /\ cloudReady = FALSE /\ lastCloudSerializedRef = NullSerialized
    /\ saveTimerRef = NoTimer /\ pendingTimers = <<>> /\ saves = <<>> /\ cloudDoc = <<>>
    /\ clearedTimers = {} /\ lastHandler = "none"
    /\ inbox = <<>> /\ peer = NoPeer
    /\ wrapped = <<>> /\ styled = NoStyled
    /\ layoutRun = NoRun /\ placements = <<>> /\ pageReady = NoReady

NextHistory ==
    \/ Mount
    \/ HistAddText
    \/ \E i \in 1..Len(canvasObjs) : HistRemove(i)
    \/ \E i \in 1..Len(canvasObjs) : HistDrag(i)
    \/ Undo
    \/ Redo
    \/ \E k \in 1..Len(loads) : LoadDone(k)

SpecHistory == InitSpecHistory /\ [][NextHistory]_vars

\* values typed into the X field of the element sidebar
SidebarInputs == {100, 333}

\* the editor canvas, edited on the canvas, from the element sidebar and
\* from the layer panel, with its undo / redo history
InitSpecEdits ==
    /\ rectIn = IdleRect /\ rect = IdleRect /\ prevRect = IdleRect
    /\ bounds = IdleBounds /\ clampCalls = 0 /\ drag = NoDrag
    /\ externalDoc = NoDoc /\ storedJSON = NoDoc /\ storedScene = <<>> /\ lastCall = NoCall
    /\ isRestoringRef = FALSE /\ loads = <<>> /\ restores = 0 /\ edits = 0
    /\ mounted = FALSE /\ canvasObjs = <<>> /\ nextId = 1
    /\ historyRef = <<>> /\ indexRef = -1 /\ script = ScenarioOff
    /\ templates = <<>> /\ activeTemplateId = NoId /\ selectedElementId = NoId
    /\ interaction = NoInteraction /\ uploading = NoUpload
    /\ studioIds = 1 /\ studioSteps = 0 /\ stepLimit = 0 /\ timerSeq = 0
    /\ syncState = "connecting"
    /\ cloudReady = FALSE /\ lastCloudSerializedRef = NullSerialized
    /\ saveTimerRef = NoTimer /\ pendingTimers = <<>> /\ saves = <<>> /\ cloudDoc = <<>>
    /\ clearedTimers = {} /\ lastHandler = "none"
    /\ inbox = <<>> /\ peer = NoPeer
    /\ wrapped = <<>> /\ styled = NoStyled
    /\ layoutRun = NoRun /\ placements = <<>> /\ pageReady = NoReady

NextEdits ==
    \/ Mount
    \/ HistAddText
    \/ \E i \in 1..Len(canvasObjs) : HistRemove(i)
    \/ \E i \in 1..Len(canvasObjs) : HistDrag(i)
    \/ \E i \in 1..Len(canvasObjs), value \in SidebarInputs : updateObject(i, value)
    \/ \E index \in 0..(Len(canvasObjs) - 1) : handleMoveUp(index)
    \/ \E index \in 0..(Len(canvasObjs) - 1) : handleMoveDown(index)
    \/ Undo
    \/ Redo
    \/ \E k \in 1..Len(loads) : LoadDone(k)

SpecEdits == InitSpecEdits /\ [][NextEdits]_vars

\* the editor canvas with texts and images whose urls may stop loading
InitSpecRestore ==
    /\ rectIn = IdleRect /\ rect = IdleRect /\ prevRect = IdleRect
    /\ bounds = IdleBounds /\ clampCalls = 0 /\ drag = NoDrag
    /\ externalDoc = NoDoc /\ storedJSON = NoDoc /\ storedScene = <<>> /\ lastCall = NoCall
    /\ isRestoringRef = FALSE /\ loads = <<>> /\ restores = 0 /\ edits = 0
    /\ mounted = FALSE /\ canvasObjs = <<>> /\ nextId = 1
    /\ historyRef = <<>> /\ indexRef = -1 /\ script = ScenarioOff
    /\ templates = <<>> /\ activeTemplateId = NoId /\ selectedElementId = NoId
    /\ interaction = NoInteraction /\ uploading = NoUpload
    /\ studioIds = 1 /\ studioSteps = 0 /\ stepLimit = 0 /\ timerSeq = 0
    /\ syncState = "connecting"
    /\ cloudReady = FALSE /\ lastCloudSerializedRef = NullSerialized
    /\ saveTimerRef = NoTimer /\ pendingTimers = <<>> /\ saves = <<>> /\ cloudDoc = <<>>
    /\ clearedTimers = {} /\ lastHandler = "none"
    /\ inbox = <<>> /\ peer = NoPeer
    /\ wrapped = <<>> /\ styled = NoStyled
    /\ layoutRun = NoRun /\ placements = <<>> /\ pageReady = NoReady

NextRestore ==
    \/ Mount
    \/ HistAddText
    \/ HistAddImage
    \/ \E i \in 1..Len(canvasObjs) : HistRemove(i)
    \/ Undo
    \/ Redo
    \/ \E k \in 1..Len(loads) : LoadDone(k)
    \/ \E k \in 1..Len(loads) : LoadFailed(k)

SpecRestore == InitSpecRestore /\ [][NextRestore]_vars

\* the template studio after mount: one blank template, active.  The page
\* is driven by its user and by documents that change elsewhere; what its
\* own pushes do is left to SpecSync.
InitSpecStudio ==
    /\ rectIn = IdleRect /\ rect = IdleRect /\ prevRect = IdleRect
    /\ bounds = IdleBounds /\ clampCalls = 0 /\ drag = NoDrag
    /\ canvasObjs = <<>> /\ nextId = 1 /\ edits = 0
    /\ externalDoc = NoDoc /\ storedJSON = NoDoc /\ storedScene = <<>> /\ lastCall = NoCall
    /\ historyRef = <<>> /\ indexRef = -1 /\ isRestoringRef = FALSE /\ loads = <<>>
    /\ mounted = FALSE /\ restores = 0 /\ script = 0
    /\ templates = <<createBlankTemplate(Uuid(1), MountTime)>>
    /\ activeTemplateId = Uuid(1)
    /\ selectedElementId = NoId
    /\ interaction = NoInteraction
    /\ uploading = NoUpload
    /\ studioIds = 2
    /\ studioSteps = 0
    /\ stepLimit = MaxStudioSteps
    /\ timerSeq = 0
    /\ syncState = "connecting"
    /\ cloudReady = FALSE
    /\ lastCloudSerializedRef = NullSerialized
    /\ saveTimerRef = NoTimer
    /\ pendingTimers = <<>>
    /\ saves = <<>>
    /\ cloudDoc = <<>>
    /\ clearedTimers = {}
    /\ lastHandler = "mount"
    /\ inbox = <<>>
    /\ peer = NoPeer
    /\ wrapped = <<>> /\ styled = NoStyled
    /\ layoutRun = NoRun /\ placements = <<>> /\ pageReady = NoReady

NextStudio ==
    \/ \E p \in PlaceholderTypes : addPlaceholderElement(p)
    \/ duplicateSelectedElement
    \/ \E f \in RectFields, v \in PropertyInputs : updateSelectedElement(f, v)
    \/ \E p \in Presets : setCanvasPreset(p)
    \/ \E i \in 1..Len(templates) : selectTemplate(i)
    \/ \E id \in StudioElementIds : startMove(id)
    \/ \E id \in StudioElementIds, h \in Handles : startResize(id, h)
    \/ \E dx \in Deltas, dy \in Deltas : handlePointerMove(dx, dy)
    \/ endInteraction
    \/ \E files \in FileLists : UploadStart(files)
    \/ \E imageUrl \in {CloudUrl, BlobUrl} : UploadComplete(imageUrl)
    \/ \E parsed \in RawTemplates : importTemplate(parsed)
    \/ \E remote \in RemoteSnapshots : RemoteChange(remote)
    \/ SubscriptionError

SpecStudio == InitSpecStudio /\ [][NextStudio]_vars

\* files given to the import input that the import rejects: one that
\* cannot be read, one that is not JSON, the document null, and a
\* template with null among its elements
RejectedFiles ==
    { [readable |-> FALSE, wellFormed |-> FALSE, value |-> JsonNull],
      [readable |-> TRUE, wellFormed |-> FALSE, value |-> JsonNull],
      [readable |-> TRUE, wellFormed |-> TRUE, value |-> JsonNull],
      [readable |-> TRUE, wellFormed |-> TRUE,
       value |-> RawPortrait(<<RawInside, JsonNull>>)] }

\* handler calls of one run of the import scenario
MaxImportSteps == 3

\* the template studio after mount, given files to import between edits
InitSpecImport ==
    /\ rectIn = IdleRect /\ rect = IdleRect /\ prevRect = IdleRect
    /\ bounds = IdleBounds /\ clampCalls = 0 /\ drag = NoDrag
    /\ canvasObjs = <<>> /\ nextId = 1 /\ edits = 0
    /\ externalDoc = NoDoc /\ storedJSON = NoDoc /\ storedScene = <<>> /\ lastCall = NoCall
    /\ historyRef = <<>> /\ indexRef = -1 /\ isRestoringRef = FALSE /\ loads = <<>>
    /\ mounted = FALSE /\ restores = 0 /\ script = 0
    /\ templates = <<createBlankTemplate(Uuid(1), MountTime)>>
    /\ activeTemplateId = Uuid(1)
    /\ selectedElementId = NoId
    /\ interaction = NoInteraction
    /\ uploading = NoUpload
    /\ studioIds = 2
    /\ studioSteps = 0
    /\ stepLimit = MaxImportSteps
    /\ timerSeq = 0
    /\ syncState = "connecting"
    /\ cloudReady = FALSE
    /\ lastCloudSerializedRef = NullSerialized
    /\ saveTimerRef = NoTimer
    /\ pendingTimers = <<>>
    /\ saves = <<>>
    /\ cloudDoc = <<>>
    /\ clearedTimers = {}
    /\ lastHandler = "mount"
    /\ inbox = <<>>
    /\ peer = NoPeer
    /\ wrapped = <<>> /\ styled = NoStyled
    /\ layoutRun = NoRun /\ placements = <<>> /\ pageReady = NoReady

NextImport ==
    \/ \E p \in PlaceholderTypes : addPlaceholderElement(p)
    \/ \E i \in 1..Len(templates) : selectTemplate(i)
    \/ \E parsed \in RawTemplates : importTemplate(parsed)
    \/ \E file \in RejectedFiles : importTemplateRejected(file)

SpecImport == InitSpecImport /\ [][NextImport]_vars

\* handler calls of one run of the template list scenario
MaxListSteps == 3

\* snapshots of the scenario: an empty document, one template, two
\* templates of which one comes without an id
ListSnapshots ==
    { <<>>,
      <<RawPortrait(<<RawInside>>)>>,
      << RawPortrait(<<>>),
         RawTemplate(NoId, DEFAULT_CANVAS_HEIGHT, DEFAULT_CANVAS_WIDTH, <<>>) >> }

\* the template studio after mount, its list of templates growing and
\* shrinking under the user's hands and under snapshots
InitSpecList ==
    /\ rectIn = IdleRect /\ rect = IdleRect /\ prevRect = IdleRect
    /\ bounds = IdleBounds /\ clampCalls = 0 /\ drag = NoDrag
    /\ canvasObjs = <<>> /\ nextId = 1 /\ edits = 0
    /\ externalDoc = NoDoc /\ storedJSON = NoDoc /\ storedScene = <<>> /\ lastCall = NoCall
    /\ historyRef = <<>> /\ indexRef = -1 /\ isRestoringRef = FALSE /\ loads = <<>>
    /\ mounted = FALSE /\ restores = 0 /\ script = 0
    /\ templates = <<createBlankTemplate(Uuid(1), MountTime)>>
    /\ activeTemplateId = Uuid(1)
    /\ selectedElementId = NoId
    /\ interaction = NoInteraction
    /\ uploading = NoUpload
    /\ studioIds = 2
    /\ studioSteps = 0
    /\ stepLimit = MaxListSteps
    /\ timerSeq = 0
    /\ syncState = "connecting"
    /\ cloudReady = FALSE
    /\ lastCloudSerializedRef = NullSerialized
    /\ saveTimerRef = NoTimer
    /\ pendingTimers = <<>>
    /\ saves = <<>>
    /\ cloudDoc = <<>>
    /\ clearedTimers = {}
    /\ lastHandler = "mount"
    /\ inbox = <<>>
    /\ peer = NoPeer
    /\ wrapped = <<>> /\ styled = NoStyled
    /\ layoutRun = NoRun /\ placements = <<>> /\ pageReady = NoReady

NextList ==
    \/ createTemplate
    \/ duplicateTemplate
    \/ \E confirmed \in BOOLEAN : deleteActiveTemplate(confirmed)
    \/ \E parsed \in {RawPortrait(<<RawInside>>)} : importTemplate(parsed)
    \/ \E remote \in ListSnapshots : RemoteChange(remote)
    \/ \E i \in 1..Len(templates) : selectTemplate(i)
    \/ \E p \in {"generic"} : addPlaceholderElement(p)

SpecList == InitSpecList /\ [][NextList]_vars

\* handler calls of one run of the upload scenario
MaxUploadSteps == 3

\* files of the upload scenario: a large image whose upload succeeds,
\* fails or times out, and a file that is not an image
FatedFiles ==
    { [width |-> 1000, height |-> 3000, upload |-> fate] : fate \in UploadFates }
    \cup { [width |-> NaN, height |-> NaN, upload |-> "stored"] }

FatedFileLists == UNION { [1..n -> FatedFiles] : n \in 1..MaxFiles }

\* the template studio after mount, given batches of files to upload
InitSpecUpload ==
    /\ rectIn = IdleRect /\ rect = IdleRect /\ prevRect = IdleRect
    /\ bounds = IdleBounds /\ clampCalls = 0 /\ drag = NoDrag
    /\ canvasObjs = <<>> /\ nextId = 1 /\ edits = 0
    /\ externalDoc = NoDoc /\ storedJSON = NoDoc /\ storedScene = <<>> /\ lastCall = NoCall
    /\ historyRef = <<>> /\ indexRef = -1 /\ isRestoringRef = FALSE /\ loads = <<>>
    /\ mounted = FALSE /\ restores = 0 /\ script = 0
    /\ templates = <<createBlankTemplate(Uuid(1), MountTime)>>
    /\ activeTemplateId = Uuid(1)
    /\ selectedElementId = NoId
    /\ interaction = NoInteraction
    /\ uploading = NoUpload
    /\ studioIds = 2
    /\ studioSteps = 0
    /\ stepLimit = MaxUploadSteps
    /\ timerSeq = 0
    /\ syncState = "connecting"
    /\ cloudReady = FALSE
    /\ lastCloudSerializedRef = NullSerialized
    /\ saveTimerRef = NoTimer
    /\ pendingTimers = <<>>
    /\ saves = <<>>
    /\ cloudDoc = <<>>
    /\ clearedTimers = {}
    /\ lastHandler = "mount"
    /\ inbox = <<>>
    /\ peer = NoPeer
    /\ wrapped = <<>> /\ styled = NoStyled
    /\ layoutRun = NoRun /\ placements = <<>> /\ pageReady = NoReady

NextUpload ==
    \/ \E files \in FatedFileLists : UploadStart(files)
    \/ \E imageUrl \in {CloudUrl} : UploadComplete(imageUrl)
    \/ createTemplate
    \/ \E confirmed \in {TRUE} : deleteActiveTemplate(confirmed)
    \/ \E i \in 1..Len(templates) : selectTemplate(i)

SpecUpload == InitSpecUpload /\ [][NextUpload]_vars

(***************************************************************************)
(* Remote operations under a timeout: withTimeout(promise, timeoutMs,      *)
(* operation) of studioCloud, around setDoc (saveStudioTemplates) and       *)
(* around uploadBytes and getDownloadURL (uploadTemplateImage).             *)
(***************************************************************************)
\* a withTimeout call right after it was made: the timer is armed, the
\* operation has not settled and neither has the promise returned
Call(operation) ==
    [operation |-> operation, timer |-> "armed", inner |-> "pending",
     outcome |-> "pending", settled |-> 0]

\* a promise that every resolve and reject call settles anew
SettleAgain(call, result) == [call EXCEPT !.outcome = result, !.settled = @ + 1]

\* resolve(value) or reject(error) on the promise withTimeout returns: the
\* first call settles it, a later one is ignored
Settle(call, result) ==
    IF call.outcome = "pending"
    THEN [call EXCEPT !.outcome = result, !.settled = @ + 1]
    ELSE call

\* what the studio's other variables do while a remote operation runs
TimeoutFrame ==
    UNCHANGED <<templates, activeTemplateId, selectedElementId, interaction, uploading,
                studioIds, studioSteps, stepLimit, cloudReady, lastCloudSerializedRef,
                saveTimerRef, pendingTimers, timerSeq, saves, cloudDoc, clearedTimers,
                netVars, layoutVars, geomVars, sceneVars, serialVars, histVars, styled>>

\* the code that awaits the k-th call, run when the call has settled: the
\* save timer's callback sets the sync state, uploadTemplateImage goes on
\* to getDownloadURL after uploadBytes and throws otherwise
Continued(k, after) ==
    LET newly == wrapped[k].outcome = "pending" /\ after.outcome # "pending"
        calls == [wrapped EXCEPT ![k] = after]
    IN  /\ syncState' =
               IF newly /\ after.operation = "setDoc"
               THEN IF after.outcome = "value" THEN "synced" ELSE "error"
               ELSE syncState
        /\ wrapped' =
               IF newly /\ after.operation = "uploadBytes" /\ after.outcome = "value"
               THEN Append(calls, Call("getDownloadURL"))
               ELSE calls

\* calls of saveStudioTemplates and uploadTemplateImage explored
MaxCalls == 2

\* saveStudioTemplates from the save timer's callback, after the save
\* effect has set 'saving', or uploadTemplateImage from the upload handler
withTimeout(operation) ==
    /\ Len(wrapped) < MaxCalls
    /\ wrapped' = Append(wrapped, Call(operation))
    /\ syncState' = IF operation = "setDoc" THEN "saving" ELSE syncState
    /\ lastHandler' = "withTimeout"
    /\ TimeoutFrame

\* the operation of the k-th call fulfils or rejects: the handlers given to
\* promise.then clear the timer and resolve or reject
OperationSettles(k, result) ==
    /\ wrapped[k].inner = "pending"
    /\ Continued(k, Settle([wrapped[k] EXCEPT !.inner = result,
                                              !.timer = IF @ = "armed" THEN "cleared" ELSE @],
                           result))
    /\ lastHandler' = "operationSettled"
    /\ TimeoutFrame

\* the timer of the k-th call fires after timeoutMs
TimeoutFires(k) ==
    /\ wrapped[k].timer = "armed"
    /\ Continued(k, Settle([wrapped[k] EXCEPT !.timer = "fired"], "timeout"))
    /\ lastHandler' = "timeoutFired"
    /\ TimeoutFrame

\* the template studio after mount, as far as its remote operations go
InitSpecTimeout ==
    /\ rectIn = IdleRect /\ rect = IdleRect /\ prevRect = IdleRect
    /\ bounds = IdleBounds /\ clampCalls = 0 /\ drag = NoDrag
    /\ canvasObjs = <<>> /\ nextId = 1 /\ edits = 0
    /\ externalDoc = NoDoc /\ storedJSON = NoDoc /\ storedScene = <<>> /\ lastCall = NoCall
    /\ historyRef = <<>> /\ indexRef = -1 /\ isRestoringRef = FALSE /\ loads = <<>>
    /\ mounted = FALSE /\ restores = 0 /\ script = 0
    /\ templates = <<createBlankTemplate(Uuid(1), MountTime)>>
    /\ activeTemplateId = Uuid(1)
    /\ selectedElementId = NoId
    /\ interaction = NoInteraction
    /\ uploading = NoUpload
    /\ studioIds = 2
    /\ studioSteps = 0
    /\ stepLimit = 0
    /\ timerSeq = 0
    /\ syncState = "connecting"
    /\ cloudReady = FALSE
    /\ lastCloudSerializedRef = NullSerialized
    /\ saveTimerRef = NoTimer
    /\ pendingTimers = <<>>
    /\ saves = <<>>
    /\ cloudDoc = <<>>
    /\ clearedTimers = {}
    /\ lastHandler = "mount"
    /\ inbox = <<>>
    /\ peer = NoPeer
    /\ wrapped = <<>> /\ styled = NoStyled
    /\ layoutRun = NoRun /\ placements = <<>> /\ pageReady = NoReady

NextTimeout ==
    \/ \E operation \in {"setDoc", "uploadBytes"} : withTimeout(operation)
    \/ \E k \in 1..Len(wrapped), result \in {"value", "error"} : OperationSettles(k, result)
    \/ \E k \in 1..Len(wrapped) : TimeoutFires(k)

\* setTimeout fires a timer that is not cleared; nothing is assumed of the
\* operations, which may never settle
SpecTimeout ==
    /\ InitSpecTimeout
    /\ [][NextTimeout]_vars
    /\ WF_vars(\E k \in 1..Len(wrapped) : TimeoutFires(k))

\* elements of the preset scenario: one at the right edge of the portrait
\* canvas, one near its bottom, one that fills it, and one of the landscape
\* template past the portrait width
RawEdge ==
    [id |-> RemoteElementId, kind |-> "frame", x |-> 850, y |-> 100, width |-> 48, height |-> 100]

RawLow ==
    [id |-> 2, kind |-> "frame", x |-> 100, y |-> 1100, width |-> 100, height |-> 150]

RawFull ==
    [id |-> 3, kind |-> "frame", x |-> 0, y |-> 0,
     width |-> DEFAULT_CANVAS_WIDTH, height |-> DEFAULT_CANVAS_HEIGHT]

RawRight ==
    [id |-> 4, kind |-> "frame", x |-> 850, y |-> 100, width |-> 100, height |-> 100]

PresetSnapshots ==
    { << RawPortrait(<<RawEdge, RawLow, RawFull>>),
         RawTemplate(2, DEFAULT_CANVAS_HEIGHT, DEFAULT_CANVAS_WIDTH, <<RawRight>>) >> }

\* handler calls of one run of the preset scenario
MaxPresetSteps == 5

\* the template studio after mount, its canvas switched between the presets
\* while elements are edited and dragged
InitSpecPreset ==
    /\ rectIn = IdleRect /\ rect = IdleRect /\ prevRect = IdleRect
    /\ bounds = IdleBounds /\ clampCalls = 0 /\ drag = NoDrag
    /\ canvasObjs = <<>> /\ nextId = 1 /\ edits = 0
    /\ externalDoc = NoDoc /\ storedJSON = NoDoc /\ storedScene = <<>> /\ lastCall = NoCall
    /\ historyRef = <<>> /\ indexRef = -1 /\ isRestoringRef = FALSE /\ loads = <<>>
    /\ mounted = FALSE /\ restores = 0 /\ script = 0
    /\ templates = <<createBlankTemplate(Uuid(1), MountTime)>>
    /\ activeTemplateId = Uuid(1)
    /\ selectedElementId = NoId
    /\ interaction = NoInteraction
    /\ uploading = NoUpload
    /\ studioIds = 2
    /\ studioSteps = 0
    /\ stepLimit = MaxPresetSteps
    /\ timerSeq = 0
    /\ syncState = "connecting"
    /\ cloudReady = FALSE
    /\ lastCloudSerializedRef = NullSerialized
    /\ saveTimerRef = NoTimer
    /\ pendingTimers = <<>>
    /\ saves = <<>>
    /\ cloudDoc = <<>>
    /\ clearedTimers = {}
    /\ lastHandler = "mount"
    /\ inbox = <<>>
    /\ peer = NoPeer
    /\ wrapped = <<>> /\ styled = NoStyled
    /\ layoutRun = NoRun /\ placements = <<>> /\ pageReady = NoReady

NextPreset ==
    \/ \E remote \in PresetSnapshots : RemoteChange(remote)
    \/ \E p \in Presets : setCanvasPreset(p)
    \/ \E i \in 1..Len(templates) : selectTemplate(i)
    \/ startMove(RemoteElementId)
    \/ updateSelectedElement("width", 100)
    \/ handlePointerMove(0, 0)

SpecPreset == InitSpecPreset /\ [][NextPreset]_vars

\* the snapshot of the layer scenario: a template with three elements and
\* a second template with one
LayerSnapshots ==
    { << RawPortrait(<<RawEdge, RawLow, RawRight>>),
         RawTemplate(2, DEFAULT_CANVAS_HEIGHT, DEFAULT_CANVAS_WIDTH, <<RawFull>>) >> }

Directions == {"forward", "backward"}

\* handler calls of one run of the layer scenario
MaxLayerSteps == 4

\* the template studio after mount, its elements selected and moved between
\* the layers
InitSpecLayer ==
    /\ rectIn = IdleRect /\ rect = IdleRect /\ prevRect = IdleRect
    /\ bounds = IdleBounds /\ clampCalls = 0 /\ drag = NoDrag
    /\ canvasObjs = <<>> /\ nextId = 1 /\ edits = 0
    /\ externalDoc = NoDoc /\ storedJSON = NoDoc /\ storedScene = <<>> /\ lastCall = NoCall
    /\ historyRef = <<>> /\ indexRef = -1 /\ isRestoringRef = FALSE /\ loads = <<>>
    /\ mounted = FALSE /\ restores = 0 /\ script = 0
    /\ templates = <<createBlankTemplate(Uuid(1), MountTime)>>
    /\ activeTemplateId = Uuid(1)
    /\ selectedElementId = NoId
    /\ interaction = NoInteraction
    /\ uploading = NoUpload
    /\ studioIds = 2
    /\ studioSteps = 0
    /\ stepLimit = MaxLayerSteps
    /\ timerSeq = 0
    /\ syncState = "connecting"
    /\ cloudReady = FALSE
    /\ lastCloudSerializedRef = NullSerialized
    /\ saveTimerRef = NoTimer
    /\ pendingTimers = <<>>
    /\ saves = <<>>
    /\ cloudDoc = <<>>
    /\ clearedTimers = {}
    /\ lastHandler = "mount"
    /\ inbox = <<>>
    /\ peer = NoPeer
    /\ wrapped = <<>> /\ styled = NoStyled
    /\ layoutRun = NoRun /\ placements = <<>> /\ pageReady = NoReady

NextLayer ==
    \/ \E remote \in LayerSnapshots : RemoteChange(remote)
    \/ \E id \in StudioElementIds : startMove(id)
    \/ endInteraction
    \/ \E i \in 1..Len(templates) : selectTemplate(i)
    \/ \E direction \in Directions : moveSelectedLayer(direction)

SpecLayer == InitSpecLayer /\ [][NextLayer]_vars

\* what the cloud document holds when a page is opened: nothing, a
\* template with a frame, or a template with an image kept as a data URL
SyncSnapshots ==
    { <<>>,
      <<RawPortrait(<<RawInside>>)>>,
      <<RawTemplate(RemoteTemplateId, NaN, 100, <<RawBroken>>)>> }

\* the one file of an upload
SyncFiles == { <<[width |-> 10, height |-> 10]>> }

\* The template studio after mount, subscribed to a document.  Frames are
\* added and images uploaded; the subscription and the save timer do the
\* rest.
InitSpecSync ==
    /\ rectIn = IdleRect /\ rect = IdleRect /\ prevRect = IdleRect
    /\ bounds = IdleBounds /\ clampCalls = 0 /\ drag = NoDrag
    /\ canvasObjs = <<>> /\ nextId = 1 /\ edits = 0
    /\ externalDoc = NoDoc /\ storedJSON = NoDoc /\ storedScene = <<>> /\ lastCall = NoCall
    /\ historyRef = <<>> /\ indexRef = -1 /\ isRestoringRef = FALSE /\ loads = <<>>
    /\ mounted = FALSE /\ restores = 0 /\ script = 0
    /\ templates = <<createBlankTemplate(Uuid(1), MountTime)>>
    /\ activeTemplateId = Uuid(1)
    /\ selectedElementId = NoId
    /\ interaction = NoInteraction
    /\ uploading = NoUpload
    /\ studioIds = 2
    /\ studioSteps = 0
    /\ stepLimit = MaxSyncSteps
    /\ timerSeq = 0
    /\ syncState = "connecting"
    /\ cloudReady = FALSE
    /\ lastCloudSerializedRef = NullSerialized
    /\ saveTimerRef = NoTimer
    /\ pendingTimers = <<>>
    /\ saves = <<>>
    /\ cloudDoc = <<>>
    /\ clearedTimers = {}
    /\ lastHandler = "mount"
    /\ \E doc \in SyncSnapshots : inbox = <<doc>>
    /\ peer = NoPeer
    /\ wrapped = <<>> /\ styled = NoStyled
    /\ layoutRun = NoRun /\ placements = <<>> /\ pageReady = NoReady

NextSync ==
    \/ addPlaceholderElement("generic")
    \/ \E files \in SyncFiles : UploadStart(files)
    \/ \E imageUrl \in {CloudUrl, BlobUrl} : UploadComplete(imageUrl)
    \/ SnapshotDelivered
    \/ SubscriptionError
    \/ \E k \in 1..Len(pendingTimers), accepted \in BOOLEAN : SaveTimerFires(k, accepted)
    \/ \E k \in 1..Len(saves), resolved \in BOOLEAN : SaveSettles(k, resolved)

\* WF_vars(SnapshotDelivered), written out: the action is enabled exactly
\* while inbox holds a snapshot, and is the only one that shortens inbox
DeliveryIsFair ==
    []<>(inbox = <<>>) \/ []<><<Len(inbox') < Len(inbox)>>_vars

\* A timer that is armed and not cleared fires after 360 ms.  Nothing is
\* assumed of the network: a snapshot may never arrive and a save may
\* never settle.
SpecSync ==
    /\ InitSpecSync
    /\ [][NextSync]_vars
    /\ WF_vars(\E k \in 1..Len(pendingTimers), accepted \in BOOLEAN : SaveTimerFires(k, accepted))

\* handler runs explored where only frames are added
MaxDebounceSteps == 2

\* The template studio after mount, subscribed to a document.  Frames are
\* added; the subscription and the save timer do the rest.
InitSpecDebounce ==
    /\ rectIn = IdleRect /\ rect = IdleRect /\ prevRect = IdleRect
    /\ bounds = IdleBounds /\ clampCalls = 0 /\ drag = NoDrag
    /\ canvasObjs = <<>> /\ nextId = 1 /\ edits = 0
    /\ externalDoc = NoDoc /\ storedJSON = NoDoc /\ storedScene = <<>> /\ lastCall = NoCall
    /\ historyRef = <<>> /\ indexRef = -1 /\ isRestoringRef = FALSE /\ loads = <<>>
    /\ mounted = FALSE /\ restores = 0 /\ script = 0
    /\ templates = <<createBlankTemplate(Uuid(1), MountTime)>>
    /\ activeTemplateId = Uuid(1)
    /\ selectedElementId = NoId
    /\ interaction = NoInteraction
    /\ uploading = NoUpload
    /\ studioIds = 2
    /\ studioSteps = 0
    /\ stepLimit = MaxDebounceSteps
    /\ timerSeq = 0
    /\ syncState = "connecting"
    /\ cloudReady = FALSE
    /\ lastCloudSerializedRef = NullSerialized
    /\ saveTimerRef = NoTimer
    /\ pendingTimers = <<>>
    /\ saves = <<>>
    /\ cloudDoc = <<>>
    /\ clearedTimers = {}
    /\ lastHandler = "mount"
    /\ \E doc \in SyncSnapshots : inbox = <<doc>>
    /\ peer = NoPeer
    /\ wrapped = <<>> /\ styled = NoStyled
    /\ layoutRun = NoRun /\ placements = <<>> /\ pageReady = NoReady

NextDebounce ==
    \/ addPlaceholderElement("generic")
    \/ SnapshotDelivered
    \/ \E k \in 1..Len(pendingTimers), accepted \in BOOLEAN : SaveTimerFires(k, accepted)
    \/ \E k \in 1..Len(saves), resolved \in BOOLEAN : SaveSettles(k, resolved)

\* as in SpecSync, an armed timer fires and nothing is assumed of the
\* network
SpecDebounce ==
    /\ InitSpecDebounce
    /\ [][NextDebounce]_vars
    /\ WF_vars(\E k \in 1..Len(pendingTimers), accepted \in BOOLEAN : SaveTimerFires(k, accepted))

\* Two template studio pages after mount, subscribed to one document.  On
\* the first a frame is added; the subscriptions and the save timers of
\* both do the rest.
InitSpecPair ==
    /\ rectIn = IdleRect /\ rect = IdleRect /\ prevRect = IdleRect
    /\ bounds = IdleBounds /\ clampCalls = 0 /\ drag = NoDrag
    /\ canvasObjs = <<>> /\ nextId = 1 /\ edits = 0
    /\ externalDoc = NoDoc /\ storedJSON = NoDoc /\ storedScene = <<>> /\ lastCall = NoCall
    /\ historyRef = <<>> /\ indexRef = -1 /\ isRestoringRef = FALSE /\ loads = <<>>
    /\ mounted = FALSE /\ restores = 0 /\ script = 0
    /\ templates = <<createBlankTemplate(Uuid(1), MountTime)>>
    /\ activeTemplateId = Uuid(1)
    /\ selectedElementId = NoId
    /\ interaction = NoInteraction
    /\ uploading = NoUpload
    /\ studioIds = 2
    /\ studioSteps = 0
    /\ stepLimit = MaxPairSteps
    /\ timerSeq = 0
    /\ syncState = "connecting"
    /\ cloudReady = FALSE
    /\ lastCloudSerializedRef = NullSerialized
    /\ saveTimerRef = NoTimer
    /\ pendingTimers = <<>>
    /\ saves = <<>>
    /\ cloudDoc = <<>>
    /\ clearedTimers = {}
    /\ lastHandler = "mount"
    /\ \E doc \in SyncSnapshots :
          /\ inbox = <<doc>>
          /\ peer = PeerMounted(doc)
    /\ wrapped = <<>> /\ styled = NoStyled
    /\ layoutRun = NoRun /\ placements = <<>> /\ pageReady = NoReady

NextPair ==
    \/ addPlaceholderElement("generic")
    \/ SnapshotDelivered
    \/ \E k \in 1..Len(pendingTimers), accepted \in BOOLEAN : SaveTimerFires(k, accepted)
    \/ \E k \in 1..Len(saves), resolved \in BOOLEAN : SaveSettles(k, resolved)
    \/ PeerSnapshotDelivered
    \/ \E k \in 1..Len(peer.timers), accepted \in BOOLEAN : PeerSaveTimerFires(k, accepted)
    \/ \E k \in 1..Len(peer.saves), resolved \in BOOLEAN : PeerSaveSettles(k, resolved)

\* WF_vars(PeerSnapshotDelivered), written out in the same way
PeerDeliveryIsFair ==
    []<>(peer.inbox = <<>>) \/ []<><<Len(peer'.inbox) < Len(peer.inbox)>>_vars

\* What is due happens: Firestore delivers the snapshots it owes, a timer
\* that is armed and not cleared fires after 360 ms, and a save settles
\* because withTimeout rejects it after SAVE_TEMPLATES_TIMEOUT_MS at the
\* latest.
SpecPair ==
    /\ InitSpecPair
    /\ [][NextPair]_vars
    /\ DeliveryIsFair
    /\ PeerDeliveryIsFair
    /\ WF_vars(\E k \in 1..Len(pendingTimers), accepted \in BOOLEAN : SaveTimerFires(k, accepted))
    /\ WF_vars(\E k \in 1..Len(saves), resolved \in BOOLEAN : SaveSettles(k, resolved))
    /\ WF_vars(\E k \in 1..Len(peer.timers), accepted \in BOOLEAN : PeerSaveTimerFires(k, accepted))
    /\ WF_vars(\E k \in 1..Len(peer.saves), resolved \in BOOLEAN : PeerSaveSettles(k, resolved))

\* what FabricImage.fromURL makes of an input image: it fails, it yields an
\* image without width and height, or a photograph
ImageLoads == { LoadFails, [width |-> 0, height |-> 0], [width |-> 400, height |-> 300] }

\* input texts: a headline of one line and one of several lines, a
\* subheading and a paragraph
Headline == [role |-> "heading", length |-> 8, height |-> 58]

LongHeadline == [role |-> "heading", length |-> 90, height |-> 260]

Subheading == [role |-> "subheading", length |-> 20, height |-> 26]

Paragraph == [role |-> "body", length |-> 200, height |-> 120]

InputTexts ==
    { <<>>, <<Headline>>, <<Paragraph>>, <<Subheading, Headline>>, <<LongHeadline, Paragraph>>,
      <<Headline, Subheading, Paragraph>>, <<Paragraph, LongHeadline, Paragraph>> }

MaxImages == 4

LayoutOptions ==
    [orientation : {"portrait", "landscape"},
     images : UNION { [1..n -> ImageLoads] : n \in 0..MaxImages },
     texts : InputTexts]

\* One autoLayout call on an empty canvas.
InitSpecLayout ==
    /\ rectIn = IdleRect /\ rect = IdleRect /\ prevRect = IdleRect
    /\ bounds = IdleBounds /\ clampCalls = 0 /\ drag = NoDrag
    /\ canvasObjs = <<>> /\ nextId = 1 /\ edits = 0
    /\ externalDoc = NoDoc /\ storedJSON = NoDoc /\ storedScene = <<>> /\ lastCall = NoCall
    /\ historyRef = <<>> /\ indexRef = -1 /\ isRestoringRef = FALSE /\ loads = <<>>
    /\ mounted = FALSE /\ restores = 0 /\ script = 0
    /\ templates = <<>> /\ activeTemplateId = NoId /\ selectedElementId = NoId
    /\ interaction = NoInteraction /\ uploading = NoUpload
    /\ studioIds = 1 /\ studioSteps = 0 /\ stepLimit = 0 /\ timerSeq = 0
    /\ syncState = "connecting"
    /\ cloudReady = FALSE /\ lastCloudSerializedRef = NullSerialized
    /\ saveTimerRef = NoTimer /\ pendingTimers = <<>> /\ saves = <<>> /\ cloudDoc = <<>>
    /\ clearedTimers = {} /\ lastHandler = "none"
    /\ inbox = <<>> /\ peer = NoPeer
    /\ wrapped = <<>> /\ styled = NoStyled
    /\ layoutRun = NoRun /\ placements = <<>> /\ pageReady = NoReady

NextLayout ==
    \/ \E options \in LayoutOptions : LayoutStart(options)
    \/ ImageSettled

SpecLayout == InitSpecLayout /\ [][NextLayout]_vars

\* the smallest number of input images whose grid rows do not fit a
\* landscape page with a heading and a body zone
ManyImages == 53

CellCounts == {1, 2, 3, 4, 5, 6, ManyImages}

\* input content of n like photographs, landscape or portrait format, with
\* or without a headline and a paragraph (the input page sets no limit on n)
CellOptions ==
    { [orientation |-> o, texts |-> ts, images |-> [k \in 1..n |-> img]] :
        o \in {"portrait", "landscape"}, ts \in {<<>>, <<Headline, Paragraph>>},
        n \in CellCounts,
        img \in {[width |-> 400, height |-> 300], [width |-> 300, height |-> 400]} }

\* One autoLayout call on an empty canvas, for any number of images.
InitSpecCells ==
    /\ rectIn = IdleRect /\ rect = IdleRect /\ prevRect = IdleRect
    /\ bounds = IdleBounds /\ clampCalls = 0 /\ drag = NoDrag
    /\ canvasObjs = <<>> /\ nextId = 1 /\ edits = 0
    /\ externalDoc = NoDoc /\ storedJSON = NoDoc /\ storedScene = <<>> /\ lastCall = NoCall
    /\ historyRef = <<>> /\ indexRef = -1 /\ isRestoringRef = FALSE /\ loads = <<>>
    /\ mounted = FALSE /\ restores = 0 /\ script = 0
    /\ templates = <<>> /\ activeTemplateId = NoId /\ selectedElementId = NoId
    /\ interaction = NoInteraction /\ uploading = NoUpload
    /\ studioIds = 1 /\ studioSteps = 0 /\ stepLimit = 0 /\ timerSeq = 0
    /\ syncState = "connecting"
    /\ cloudReady = FALSE /\ lastCloudSerializedRef = NullSerialized
    /\ saveTimerRef = NoTimer /\ pendingTimers = <<>> /\ saves = <<>> /\ cloudDoc = <<>>
    /\ clearedTimers = {} /\ lastHandler = "none"
    /\ inbox = <<>> /\ peer = NoPeer
    /\ wrapped = <<>> /\ styled = NoStyled
    /\ layoutRun = NoRun /\ placements = <<>> /\ pageReady = NoReady

NextCells ==
    \/ \E options \in CellOptions : LayoutStart(options)
    \/ ImageSettled

SpecCells == InitSpecCells /\ [][NextCells]_vars

\* One placeholder element on a default canvas, its property fields edited and
\* the template sanitized.
InitSpecStyle ==
    /\ rectIn = IdleRect /\ rect = IdleRect /\ prevRect = IdleRect
    /\ bounds = IdleBounds /\ clampCalls = 0 /\ drag = NoDrag
    /\ canvasObjs = <<>> /\ nextId = 1 /\ edits = 0
    /\ externalDoc = NoDoc /\ storedJSON = NoDoc /\ storedScene = <<>> /\ lastCall = NoCall
    /\ historyRef = <<>> /\ indexRef = -1 /\ isRestoringRef = FALSE /\ loads = <<>>
    /\ mounted = FALSE /\ restores = 0 /\ script = 0
    /\ templates = <<>> /\ activeTemplateId = NoId /\ selectedElementId = NoId
    /\ interaction = NoInteraction /\ uploading = NoUpload
    /\ studioIds = 1 /\ studioSteps = 0 /\ stepLimit = 0 /\ timerSeq = 0
    /\ syncState = "connecting"
    /\ cloudReady = FALSE /\ lastCloudSerializedRef = NullSerialized
    /\ saveTimerRef = NoTimer /\ pendingTimers = <<>> /\ saves = <<>> /\ cloudDoc = <<>>
    /\ clearedTimers = {} /\ lastHandler = "none"
    /\ inbox = <<>> /\ peer = NoPeer
    /\ wrapped = <<>> /\ styled \in
          { [pc |-> "placed", edits |-> 0, canvas |-> c,
             element |-> PlaceholderElement(p, c.w, c.h),
             sanitizedCanvas |-> c, sanitized |-> NoStyled] :
              p \in PlaceholderTypes, c \in ResizeCanvases }
    /\ layoutRun = NoRun /\ placements = <<>> /\ pageReady = NoReady

NextStyle ==
    \/ \E field \in DOMAIN StyleInputs : \E typed \in StyleInputs[field] : StyleEdit(field, typed)
    \/ StyleSanitize

SpecStyle == InitSpecStyle /\ [][NextStyle]_vars

\* the project document the page is opened with: none, or a saved scene
\* of a text and an image that no longer decodes
SavedDocs ==
    { NoDoc, [shape |-> "scene", objects |-> <<DocText, DocImageBroken>>, loadable |-> TRUE] }

\* the built-in template: one with a scene, one with a thumbnail only, and
\* one whose thumbnail does not load
BuiltInTemplates ==
    { [canvasJSON |-> [shape |-> "scene", loadable |-> TRUE,
                       objects |-> <<DocImageOk, DocObj("image", ExcelFrameId, "Frame", "ok.png", <<>>)>>],
       thumbnail |-> "ok.png", isDefault |-> TRUE],
      [canvasJSON |-> NoDoc, thumbnail |-> "ok.png", isDefault |-> TRUE],
      [canvasJSON |-> NoDoc, thumbnail |-> "broken.png", isDefault |-> FALSE] }

\* the input content of the store: none, or a headline, an image and a
\* paragraph
SceneOptions ==
    { [orientation |-> "portrait", images |-> <<>>, texts |-> <<>>],
      [orientation |-> "portrait", texts |-> <<Headline, Paragraph>>,
       images |-> <<[width |-> 400, height |-> 300]>>] }

\* The editor page after the commit that mounted FabricCanvas: the history
\* holds the empty canvas, handleCanvasReady stands at its first await.
InitSpecScene ==
    /\ rectIn = IdleRect /\ rect = IdleRect /\ prevRect = IdleRect
    /\ bounds = IdleBounds /\ clampCalls = 0 /\ drag = NoDrag
    /\ canvasObjs = <<>> /\ nextId = 1 /\ edits = 0
    /\ externalDoc = NoDoc /\ storedJSON = NoDoc /\ storedScene = <<>> /\ lastCall = NoCall
    /\ historyRef = <<Snapshot(<<>>)>> /\ indexRef = 0 /\ isRestoringRef = FALSE /\ loads = <<>>
    /\ mounted = TRUE /\ restores = 0 /\ script = ScenarioOff
    /\ templates = <<>> /\ activeTemplateId = NoId /\ selectedElementId = NoId
    /\ interaction = NoInteraction /\ uploading = NoUpload
    /\ studioIds = 1 /\ studioSteps = 0 /\ stepLimit = 0 /\ timerSeq = 0
    /\ syncState = "connecting"
    /\ cloudReady = FALSE /\ lastCloudSerializedRef = NullSerialized
    /\ saveTimerRef = NoTimer /\ pendingTimers = <<>> /\ saves = <<>> /\ cloudDoc = <<>>
    /\ clearedTimers = {} /\ lastHandler = "none"
    /\ inbox = <<>> /\ peer = NoPeer
    /\ wrapped = <<>> /\ styled = NoStyled
    /\ layoutRun = NoRun /\ placements = <<>>
    /\ \E saved \in SavedDocs, template \in BuiltInTemplates, options \in SceneOptions :
          LET r == [pc |-> "saved", saved |-> saved, canvasJSON |-> NoDoc, template |-> template,
                    options |-> options, loaded |-> FALSE, steps |-> 0]
          IN  pageReady = [r EXCEPT !.pc = ReadyStage("saved", FALSE, r)]

NextScene ==
    \/ ReadyDeserialized
    \/ ReadyThumbnail
    \/ ReadyLayout
    \/ ImageSettled
    \/ SceneAddText
    \/ SceneRestore(-1)
    \/ SceneRestore(1)
    \/ \E k \in 1..Len(loads) : LoadDone(k)
    \/ SyncToStore
    \/ Remount

SpecScene == InitSpecScene /\ [][NextScene]_vars

(***************************************************************************)
(* Claims about the editor's scene.                                        *)
(***************************************************************************)
UniqueIds(objs) == \A i, j \in 1..Len(objs) : i # j => objs[i].id # objs[j].id

LayoutDone == layoutRun.pc = "done"

\* FabricImage.fromURL yields it and it has a width and a height
Placeable(img) == img # LoadFails /\ img.width # 0 /\ img.height # 0

\* the options with a photograph for every image that cannot be placed
Healed(options) ==
    [options EXCEPT !.images =
        [i \in 1..Len(options.images) |->
            IF Placeable(options.images[i]) THEN options.images[i]
            ELSE [width |-> 400, height |-> 300]]]

\* a box as it lies on the canvas, whatever its id
Unidentified(block) == [block EXCEPT !.id = NoId]

Boxes(blocks) == [k \in 1..Len(blocks) |-> Unidentified(blocks[k])]

TextBoxes(blocks) == SelectSeq(Boxes(blocks), LAMBDA b : b.kind # "image")

\* the boxes of image i of the input list, i counted from 0
ImageBoxes(blocks, i) == SelectSeq(Boxes(blocks), LAMBDA b : b.kind = "image" /\ b.index = i)

\* C16 as stated: autoLayout completes and places every text and every
\* image that did not fail to load, each in the cell of its index, as if
\* no image had failed.
C16_EveryLoadedImagePlaced ==
    LayoutDone =>
        LET options == layoutRun.options
            whole == autoLayout(Healed(options), 1)
        IN  /\ TextBoxes(placements) = TextBoxes(whole)
            /\ \A i \in 1..Len(options.images) :
                  ImageBoxes(placements, i - 1) =
                      IF options.images[i] # LoadFails THEN ImageBoxes(whole, i - 1) ELSE <<>>

\* C16, amended: for any subset of input images that fail to load or load
\* without a width or a height, autoLayout goes on to its end and places
\* every text and every other image; each of these images lies in the cell
\* of its index in the input list, as if every image had been placed.
C16_ImageFailuresTolerated ==
    /\ layoutRun.pc = "images" => layoutRun.settled < Len(layoutRun.options.images)
    /\ LayoutDone =>
        LET options == layoutRun.options
            whole == autoLayout(Healed(options), 1)
        IN  /\ layoutRun.settled = Len(options.images)
            /\ TextBoxes(placements) = TextBoxes(whole)
            /\ \A i \in 1..Len(options.images) :
                  ImageBoxes(placements, i - 1) =
                      IF Placeable(options.images[i]) THEN ImageBoxes(whole, i - 1) ELSE <<>>

\* four images of which the first fails to load and the third has no size,
\* the other two placed, between a headline and a paragraph
C16_Witness ==
    /\ LayoutDone
    /\ Len(layoutRun.options.images) = 4
    /\ layoutRun.options.images[1] = LoadFails
    /\ layoutRun.options.images[3].width = 0
    /\ [k \in 1..Len(placements) |-> placements[k].kind] = <<"heading", "image", "image", "body">>
    /\ placements[2].index = 1 /\ placements[3].index = 3
    /\ placements[3].cell = ImageCell(4, 3, layoutRun.frame)

\* the content height of the run's orientation
RunContentHeight ==
    Px(getCanvasDimensions(layoutRun.options.orientation).height - 2 * CANVAS_PADDING)

HasRole(roles) == \E k \in 1..Len(layoutRun.options.texts) : layoutRun.options.texts[k].role \in roles

\* the zone heights by content presence
HeadingHeight ==
    IF HasRole({"heading", "subheading"}) THEN (RunContentHeight * 18) \div 100 ELSE 0

BodyHeight == IF HasRole({"body"}) THEN (RunContentHeight * 20) \div 100 ELSE 0

ImageHeight ==
    IF layoutRun.options.images # <<>> THEN RunContentHeight - HeadingHeight - BodyHeight ELSE 0

BlocksOf(kinds) == SelectSeq(placements, LAMBDA b : b.kind \in kinds)

\* C17: the heading zone is 0.18 x contentHeight iff a heading or
\* subheading exists (else 0), the body zone 0.20 x contentHeight iff a body
\* text exists (else 0), the image zone takes the rest when images exist;
\* the zones are stacked from the padding downwards: the first heading box
\* is at the padding, the image cells lie between the end of the heading
\* zone and the end of the image zone, the first at its top, and the first
\* body box 10 px below the end of the image zone; the heights never sum
\* to more than contentHeight.
C17_ZoneHeights ==
    layoutRun.pc # "idle" =>
        LET f == layoutRun.frame
            top == Px(CANVAS_PADDING)
            headings == BlocksOf({"heading", "subheading"})
            images == BlocksOf({"image"})
            bodies == BlocksOf({"body"})
        IN  /\ Percent(f.contentHeightPx, f.headingRatio) = HeadingHeight
            /\ Percent(f.contentHeightPx, f.bodyRatio) = BodyHeight
            /\ f.hasImages => Percent(f.contentHeightPx, f.imageRatio) = ImageHeight
            /\ HeadingHeight + ImageHeight + BodyHeight <= RunContentHeight
            /\ headings # <<>> => headings[1].top = top
            /\ \A k \in 1..Len(images) :
                  /\ images[k].cell.y >= top + HeadingHeight
                  /\ images[k].cell.y + images[k].cell.height <= top + HeadingHeight + ImageHeight
                  /\ images[k].index = 0 => images[k].cell.y = top + HeadingHeight
            /\ bodies # <<>> => bodies[1].top = top + HeadingHeight + ImageHeight + Px(10)

\* a portrait page with a headline, a subheading, two images and a
\* paragraph: the paragraph begins 10 px below 80 % of the content height
C17_Witness ==
    /\ LayoutDone
    /\ layoutRun.options.orientation = "portrait"
    /\ layoutRun.options.texts = <<Headline, Subheading, Paragraph>>
    /\ [k \in 1..Len(placements) |-> placements[k].kind]
           = <<"heading", "subheading", "image", "image", "body">>
    /\ placements[3].cell.y = Px(40) + Percent(1043, 18)
    /\ placements[5].top = Px(40) + Percent(1043, 80) + Px(10)

\* C18: objects placed in different zones never overlap vertically: on a
\* page with images every heading and subheading box ends at or above the
\* top of the image zone, every image lies inside the image zone, and
\* every body box starts at or below the bottom of the image zone.
C18_ZonesDoNotOverlap ==
    layoutRun.pc # "idle" /\ layoutRun.options.images # <<>> =>
        LET zoneTop == Px(CANVAS_PADDING) + HeadingHeight
        IN  \A k \in 1..Len(placements) :
              LET b == placements[k]
              IN  /\ b.kind \in {"heading", "subheading"} => b.top + b.height <= zoneTop
                  /\ b.kind = "image" => b.top >= zoneTop /\ b.top + b.height <= zoneTop + ImageHeight
                  /\ b.kind = "body" => b.top >= zoneTop + ImageHeight

(***************************************************************************)
(* Claims about the studio's cloud synchronisation.                        *)
(***************************************************************************)
\* the list a save in flight was called with holds a data: or blob: source
PushedLocalOnly(save) ==
    \E k \in 1..Len(save.templates) : \E j \in 1..Len(save.templates[k].elements) :
        IsLocalOnly(save.templates[k].elements[j].src)

\* written is pushed with the src key of every data: and blob: image
\* removed and nothing else touched
StrippedOf(written, pushed) ==
    /\ Len(written) = Len(pushed)
    /\ \A k \in 1..Len(pushed) :
          /\ [written[k] EXCEPT !.elements = <<>>] = [pushed[k] EXCEPT !.elements = <<>>]
          /\ Len(written[k].elements) = Len(pushed[k].elements)
          /\ \A j \in 1..Len(pushed[k].elements) :
                LET element == pushed[k].elements[j]
                IN  written[k].elements[j] =
                        IF element.kind = "image" /\ IsLocalOnly(element.src)
                        THEN WithoutSrc(element)
                        ELSE element

\* C11: no template list handed to the remote store holds an element whose
\* src starts with data: or blob:, and the list written is the list pushed
\* with exactly those src keys removed: every other field, every other
\* element and the order are as they were.
C11_NoLocalSourceWritten ==
    /\ [](\A k \in 1..Len(cloudDoc) : \A j \in 1..Len(cloudDoc[k].elements) :
             ~IsLocalOnly(SrcOf(cloudDoc[k].elements[j])))
    /\ [][Len(saves') > Len(saves)
             => StrippedOf(cloudDoc', saves'[Len(saves')].templates)]_vars

\* a list with a local-only image was pushed, and what was written holds
\* that image without its src
C11_Witness ==
    /\ saves # <<>>
    /\ PushedLocalOnly(saves[Len(saves)])
    /\ cloudDoc = stripLocalOnlySources(saves[Len(saves)].templates)
    /\ \E k \in 1..Len(cloudDoc) : \E j \in 1..Len(cloudDoc[k].elements) :
          "src" \notin DOMAIN cloudDoc[k].elements[j]

\* the snapshots the subscription can deliver with a list in them
NonEmptySnapshots == IF inbox = <<>> THEN {} ELSE {Head(inbox)} \ {<<>>}

\* remoteTemplates.map(sanitizeTemplate) in the state the callback runs in
SanitizedSnapshot(remote) ==
    [k \in 1..Len(remote) |->
        sanitizeTemplate(remote[k], studioIds + (k - 1) * IdStride, NowIso)]

TimerIds(timers) == { timers[k].id : k \in 1..Len(timers) }

\* a snapshot callback ran on the first page without arming a timer
SnapshotArmsNothing ==
    Len(inbox') < Len(inbox)
    => TimerIds(pendingTimers') \subseteq TimerIds(pendingTimers)

\* a snapshot callback ran on the second page without arming a timer
PeerSnapshotArmsNothing ==
    Len(peer'.inbox) < Len(peer.inbox)
    => TimerIds(peer'.timers) \subseteq TimerIds(peer.timers)

\* no push is pending or in flight on either page
Quiescent ==
    /\ pendingTimers = <<>> /\ saves = <<>>
    /\ peer.timers = <<>> /\ peer.saves = <<>>

\* C13 as stated: applying an incoming remote snapshot never schedules a
\* push by itself.
C13_SnapshotNeverSchedulesPush ==
    [][SnapshotArmsNothing /\ PeerSnapshotArmsNothing]_vars

\* C13, amended: applying a remote snapshot that holds a list (the echo of
\* the page's own push among them) never schedules a push; only the empty
\* snapshot does, for the blank template the page puts in its place.  Two
\* connected pages whose user has stopped editing reach a state in which
\* no push is pending or in flight, and stay there.
C13_EchoSuppression ==
    /\ [][(inbox # <<>> /\ Head(inbox) # <<>> => SnapshotArmsNothing)
          /\ (peer.inbox # <<>> /\ Head(peer.inbox) # <<>> => PeerSnapshotArmsNothing)]_vars
    /\ <>[]Quiescent

\* both pages have applied the echo of the first page's push of a list
\* with an element in it, and nothing is pending or in flight
C13_Witness ==
    /\ Quiescent
    /\ inbox = <<>> /\ peer.inbox = <<>>
    /\ lastHandler = "RemoteSnapshot"
    /\ cloudDoc # <<>>
    /\ cloudDoc[1].elements # <<>>
    /\ lastCloudSerializedRef = Serialized(templates)
    /\ JSONstringify(templates) = StoredTemplates(cloudDoc)
    /\ JSONstringify(peer.templates) = StoredTemplates(cloudDoc)

\* a handler of the page changed the template list
LocalMutation ==
    /\ studioSteps' # studioSteps
    /\ lastHandler' # "RemoteSnapshot"
    /\ templates' # templates

\* the step left exactly one timer pending, a new one that carries the
\* whole list as it now is, and cleared the ones that were pending
ArmsOneTimer ==
    /\ timerSeq' = timerSeq + 1
    /\ pendingTimers' = <<[id |-> timerSeq', templates |-> templates']>>
    /\ TimerIds(pendingTimers) \subseteq clearedTimers'

\* the step issued a push
PushIssued == Len(saves') = Len(saves) + 1

PointerDownElsewhere ==
    /\ interaction.mode # "none"
    /\ lastHandler' \in {"startMove", "startResize"}
    /\ selectedElementId' # interaction.elementId

\* C15: only one pointer interaction is active at a time: while a move or
\* resize is on, a pointerDown on a different element is ignored, and the
\* interaction's element, mode and start rect stay as they are.
C15_SingleInteraction ==
    [][PointerDownElsewhere => interaction' = interaction]_vars

ElementInsideCanvas(e, t) ==
    /\ e.width >= MIN_ELEMENT_SIZE /\ e.height >= MIN_ELEMENT_SIZE
    /\ e.x >= 0 /\ e.y >= 0
    /\ e.x + e.width <= t.canvasWidth
    /\ e.y + e.height <= t.canvasHeight

\* C1: every element of every template is at least MIN_ELEMENT_SIZE wide and
\* high and lies inside its template's canvas, after any interleaving of
\* add, duplicate, property edit, pointer move and resize, preset switch,
\* image-upload completion, import and remote snapshot.
C1_ElementsInsideCanvas ==
    \A i \in 1..Len(templates) :
        \A j \in 1..Len(templates[i].elements) :
            ElementInsideCanvas(templates[i].elements[j], templates[i])

(***************************************************************************)
(* Claims about the history.                                               *)
(***************************************************************************)
\* a user edit of the scene, whichever it is
HistEditStep ==
    \/ HistAddText
    \/ \E i \in 1..Len(canvasObjs) : HistRemove(i)
    \/ \E i \in 1..Len(canvasObjs) : HistDrag(i)

\* the scenes of the scenario on a fresh canvas: A is the empty canvas
\* committed on mount, B the canvas with the first text
SceneA == <<>>

SceneB == <<NewText(1)>>

C2_ScenarioStates ==
    /\ script = 3 => Len(historyRef) = 3 /\ indexRef = 2
    /\ script = 7 => canvasObjs = SceneA /\ indexRef = 0 /\ Len(historyRef) = 3
    /\ script = 9 => canvasObjs = SceneB /\ indexRef = 1 /\ Len(historyRef) = 3
    /\ script >= 10 =>
           /\ historyRef = <<Snapshot(SceneA), Snapshot(SceneB), Snapshot(canvasObjs)>>
           /\ indexRef = 2

C2_RedoAfterCommitIsNoop ==
    (script = 10 /\ script' = 11) =>
        UNCHANGED <<canvasObjs, historyRef, indexRef, isRestoringRef, loads>>

C2_CommitDiscardsRedoBranch ==
    (HistEditStep /\ ~isRestoringRef /\ indexRef < Len(historyRef) - 1) =>
        /\ historyRef' = Append(SubSeq(historyRef, 1, indexRef + 1), Snapshot(canvasObjs'))
        /\ indexRef' = Len(historyRef') - 1

\* C2: redo-branch pruning.  After commit(A); commit(B); commit(C); undo();
\* undo() the canvas shows A; one redo() shows B; a commit(D) then leaves the
\* entries [A, B, D] with the cursor on D and a following redo() changes
\* nothing.  In general a commit made while the cursor is not on the last
\* entry discards every entry after the cursor before appending.
C2_RedoBranchPruning ==
    /\ []C2_ScenarioStates
    /\ [][C2_RedoAfterCommitIsNoop]_vars
    /\ [][C2_CommitDiscardsRedoBranch]_vars

\* the whole scenario has been played, D differing from the discarded C or not
C2_Witness ==
    /\ script = 11
    /\ Len(historyRef) = 3 /\ indexRef = 2
    /\ canvasObjs # SceneB

C3_CursorValid ==
    /\ Len(historyRef) <= HISTORY_LIMIT
    /\ -1 <= indexRef /\ indexRef <= Len(historyRef) - 1
    /\ indexRef = -1 <=> historyRef = <<>>

C3_EvictsOldest ==
    (HistEditStep /\ ~isRestoringRef
       /\ Len(historyRef) = HISTORY_LIMIT /\ indexRef = HISTORY_LIMIT - 1) =>
        /\ historyRef' = Append(Tail(historyRef), Snapshot(canvasObjs'))
        /\ indexRef' = HISTORY_LIMIT - 1

\* C3: the history is bounded and the cursor is a valid index: at most
\* HISTORY_LIMIT entries, -1 <= cursor <= len - 1, cursor = -1 only for the
\* empty history; a commit onto a full history drops exactly the oldest
\* entry, keeps the others in order and leaves the cursor on the new entry.
C3_HistoryBounded ==
    /\ []C3_CursorValid
    /\ [][C3_EvictsOldest]_vars

\* the entry committed on mount has been evicted from a full history
C3_Witness ==
    /\ Len(historyRef) = HISTORY_LIMIT
    /\ indexRef = HISTORY_LIMIT - 1
    /\ historyRef[1] # Snapshot(<<>>)
    /\ historyRef[HISTORY_LIMIT] = Snapshot(canvasObjs)

\* C4: while a restoration started by undo() or redo() has not completed,
\* every saveState call (of a user edit or of the events of a scene reload)
\* leaves entries and cursor unchanged.
C4_NoCommitWhileRestoring ==
    [][ (loads # <<>> /\ (HistEditStep \/ \E k \in 1..Len(loads) : LoadDone(k)))
          => UNCHANGED <<historyRef, indexRef>> ]_vars

\* C5: while the scene load of an undo or redo is in flight, no other undo,
\* redo or scene mutation changes the cursor or the scene.
C5_RestorationExcludesMutations ==
    [][ (loads # <<>> /\ (Undo \/ Redo \/ HistEditStep))
          => UNCHANGED <<indexRef, canvasObjs>> ]_vars

UndecodableImage(d) == d.type = "image" /\ ~Decodable(d.payload)

KeptTopLevel(d) == ~UndecodableImage(d)

\* the fields of a top-level object, without its children
TopFields(o) ==
    [type |-> o.type, id |-> o.id, elementName |-> o.elementName,
     payload |-> o.payload, left |-> o.left]

C8_NoListRaisesFirstError ==
    (lastCall.from = "external" /\ externalDoc.shape # "scene" /\ ~lastCall.loaded) =>
        /\ ~lastCall.retried
        /\ lastCall.raised = FirstLoadError

(***************************************************************************)
(* Claims about the geometry utilities.                                     *)
(***************************************************************************)
\* C9: every result of clampRectToCanvas lies inside the canvas and has at
\* least the minimum size: minSize <= width <= boundsW, minSize <= height <=
\* boundsH, 0 <= x <= boundsW - width, 0 <= y <= boundsH - height, whatever the
\* input rect (negative, oversized, NaN) and for every canvas size a template
\* can have.
C9_ClampInsideBounds ==
    clampCalls >= 1 =>
        /\ MIN_ELEMENT_SIZE <= rect.width /\ rect.width <= bounds.w
        /\ MIN_ELEMENT_SIZE <= rect.height /\ rect.height <= bounds.h
        /\ 0 <= rect.x /\ rect.x <= bounds.w - rect.width
        /\ 0 <= rect.y /\ rect.y <= bounds.h - rect.height

\* a NaN coordinate and an oversized width were clamped
C9_Witness ==
    /\ clampCalls = 1
    /\ IsNaN(rectIn.x) /\ IsNaN(rectIn.height)
    /\ rectIn.width > bounds.w /\ rectIn.y < 0
    /\ rect.width = bounds.w /\ rect.x = 0

\* C10: clampRectToCanvas is idempotent: applying it to its own result
\* returns that result unchanged.
C10_ClampIdempotent ==
    clampCalls >= 2 => rect = prevRect

\* the first application changed the rect, the second did not
C10_Witness ==
    /\ clampCalls = 2
    /\ rect = prevRect
    /\ rect # rectIn
    /\ rectIn.x > bounds.w /\ rectIn.width < MIN_ELEMENT_SIZE /\ ~IsNaN(rectIn.width)


----------------------------------------------------------------------------
\* Claims about template import

\* a handler ran and it was the import, rejected or carried out
ImportStep(outcome) == studioSteps' # studioSteps /\ lastHandler' = outcome

\* one template more, at the end, and the ones before it as they were
AppendedOne ==
    /\ Len(templates') = Len(templates) + 1
    /\ SubSeq(templates', 1, Len(templates)) = templates

\* C20: template import is all-or-nothing: when reading, parsing or
\* validating the file fails, the template list, the active template id
\* and the selection are as before the import; when it succeeds, exactly
\* one template is appended and no existing template is modified.
C20_ImportAllOrNothing ==
    [][/\ ImportStep("importTemplateRejected") =>
              UNCHANGED <<templates, activeTemplateId, selectedElementId>>
       /\ ImportStep("importTemplate") => AppendedOne]_vars

\* a file was imported, an element was added to the imported template and
\* selected, and then an import was rejected
C20_Witness ==
    /\ lastHandler = "importTemplateRejected"
    /\ Len(templates) = 2
    /\ activeTemplateId = templates[2].id
    /\ selectedElementId # NoId

----------------------------------------------------------------------------
\* Claims about the list of templates

\* the handler that just ran deleted the only template
DeletedLast ==
    /\ studioSteps' # studioSteps
    /\ lastHandler' = "deleteActiveTemplate"
    /\ Len(templates) = 1
    /\ templates' # templates

\* the list holds one blank template whose id the list did not hold before
OneFreshBlank ==
    /\ Len(templates') = 1
    /\ templates'[1] = createBlankTemplate(templates'[1].id, templates'[1].createdAt)
    /\ TemplateIndex(templates, templates'[1].id) = 0

\* C21: the template list is never empty: deleting the last remaining
\* template replaces it with one fresh blank template; and after any create,
\* duplicate, delete, import or incoming snapshot the active template id
\* refers to a template present in the list.
C21_ListNeverEmpty ==
    /\ [](templates # <<>> /\ TemplateIndex(templates, activeTemplateId) # 0)
    /\ [][DeletedLast => OneFreshBlank]_vars

\* after an earlier handler had taken an id, the only template was deleted
\* and a blank one with a new id stands in its place
C21_Witness ==
    /\ lastHandler = "deleteActiveTemplate"
    /\ Len(templates) = 1
    /\ templates[1].elements = <<>>
    /\ activeTemplateId = templates[1].id
    /\ activeTemplateId > Uuid(2)

----------------------------------------------------------------------------
\* Claims about uploads

\* handleUploadTemplateImages has just finished its batch
UploadFinished == lastHandler' = "UploadComplete" /\ uploading # NoUpload

\* the template the batch was started on, after the batch
UploadTarget == templates'[TemplateIndex(templates', uploading.templateId)]

\* the k-th file of the batch has its element, with the source its upload
\* led to
FilePlaced(k) ==
    \E i \in 1..Len(UploadTarget.elements) :
        LET element == UploadTarget.elements[i]
        IN  /\ element.id = Uuid(uploading.firstId + k - 1)
            /\ element.kind = "image"
            /\ IF uploading.files[k].upload = "stored"
               THEN SrcOf(element) = CloudUrl
               ELSE IsLocalOnly(SrcOf(element))

\* C22: upload failure is non-fatal: when the remote upload of an image file
\* fails or times out, an image element with a session-local source is still
\* added to the template, the remaining files of the batch are still
\* processed, and the uploading flag is false once the batch has finished,
\* whatever the mix of successes and failures.
C22_UploadFailureNonFatal ==
    [][UploadFinished =>
          /\ uploading' = NoUpload
          /\ TemplateIndex(templates, uploading.templateId) # 0 =>
                 \A k \in 1..Len(uploading.files) :
                     ~IsNaN(uploading.files[k].width) => FilePlaced(k)]_vars

\* a batch whose first upload timed out and whose second succeeded has left
\* two image elements, the first with an object URL
C22_Witness ==
    /\ lastHandler = "UploadComplete"
    /\ uploading = NoUpload
    /\ HasActive
    /\ Len(ActiveTemplate.elements) = 2
    /\ SrcOf(ActiveTemplate.elements[1]) = BlobUrl
    /\ SrcOf(ActiveTemplate.elements[2]) = CloudUrl

----------------------------------------------------------------------------
\* Claims about failed pushes

\* the catch block of a save timer callback has just run
PushFailed == lastHandler' = "saveFailed" /\ Len(saves') < Len(saves)

\* one of the pending timers fired in this step
TimerFired ==
    \E k \in 1..Len(pendingTimers) :
        pendingTimers' = clearTimeout(pendingTimers, pendingTimers[k].id)

\* C23 as stated: a failed or timed-out push is never retried
\* automatically: after a push fails the sync status is 'error', and no
\* further write is issued until a later local mutation changes the template
\* list (whose save effect takes the status from 'error' to 'saving').
C23_NoWriteUntilMutation ==
    [][/\ PushFailed => syncState' = "error"
       /\ syncState = "error" => ~PushIssued]_vars

\* C23, amended: after a push fails the sync status is 'error', and the
\* failure arms no timer and issues no write; a write is issued only when a
\* save timer fires, and a timer is armed only by a run of the save effect
\* (the template list was set, or the subscription answered), never by a
\* timer callback.  The timer may have been armed before the failure, while
\* the push was in flight.
C23_FailureArmsNothing ==
    [][/\ PushFailed =>
              /\ syncState' = "error"
              /\ ~PushIssued
              /\ UNCHANGED <<pendingTimers, saveTimerRef, timerSeq, cloudDoc>>
       /\ PushIssued => TimerFired
       /\ timerSeq' # timerSeq =>
              lastHandler' \notin {"saveTimer", "saveResolved", "saveFailed"}]_vars

\* a push has failed with nothing else pending: the badge shows the error
\* and no timer is armed
C23_Witness ==
    /\ lastHandler = "saveFailed"
    /\ syncState = "error"
    /\ pendingTimers = <<>>
    /\ saves = <<>>
    /\ cloudDoc # <<>>

----------------------------------------------------------------------------
\* Claims about timeouts

\* what a step may do to one withTimeout call, b before and a after it
SettlesOnce(b, a) ==
    /\ a.settled <= 1
    /\ b.outcome # "pending" =>
           /\ a.outcome = b.outcome
           /\ a.inner # b.inner => syncState' = syncState /\ Len(wrapped') = Len(wrapped)
    /\ b.outcome = "pending" /\ a.outcome # "pending" =>
           /\ b.inner = "pending" /\ b.timer = "armed"
           /\ IF a.timer = "fired"
              THEN a.outcome = "timeout" /\ a.inner = "pending"
              ELSE a.outcome = a.inner /\ a.timer = "cleared"
           /\ a.operation = "setDoc" /\ a.outcome = "timeout" => syncState' = "error"

\* C24: every remote operation wrapped in a timeout (template save, image
\* upload, download-URL resolution) settles exactly once: with the
\* operation's result or error if that comes before the timer fires,
\* otherwise with a timeout failure; a result that arrives after the timeout
\* has fired has no effect, and a save that times out leaves the sync status
\* at 'error'.
C24_SettlesExactlyOnce ==
    /\ [][\A k \in 1..Len(wrapped) : SettlesOnce(wrapped[k], wrapped'[k])]_vars
    /\ <>[](\A k \in 1..Len(wrapped) : wrapped[k].outcome # "pending")

\* a save timed out, its setDoc fulfilled afterwards, and the status still
\* shows the error; an upload went on to its download URL
C24_Witness ==
    /\ Len(wrapped) = 3
    /\ wrapped[1] = [operation |-> "setDoc", timer |-> "fired", inner |-> "value",
                     outcome |-> "timeout", settled |-> 1]
    /\ wrapped[2].operation = "uploadBytes" /\ wrapped[2].outcome = "value"
    /\ wrapped[3].operation = "getDownloadURL" /\ wrapped[3].outcome = "timeout"
    /\ syncState = "error"

(***************************************************************************)
(* C25: the south-east handle.                                             *)
(***************************************************************************)
\* the rect the claim's formula gives for the latest drag
SouthEastRect ==
    [x |-> rectIn.x, y |-> rectIn.y,
     width |-> clamp(rectIn.width + drag.deltaX, MIN_ELEMENT_SIZE, bounds.w - rectIn.x),
     height |-> clamp(rectIn.height + drag.deltaY, MIN_ELEMENT_SIZE, bounds.h - rectIn.y)]

\* the start rect's origin leaves room for the minimum size inside the canvas
OriginFits ==
    /\ 0 <= rectIn.x /\ rectIn.x <= bounds.w - MIN_ELEMENT_SIZE
    /\ 0 <= rectIn.y /\ rectIn.y <= bounds.h - MIN_ELEMENT_SIZE

ExampleDrag ==
    /\ rectIn = [x |-> 10, y |-> 10, width |-> 100, height |-> 80]
    /\ bounds = [w |-> 900, h |-> 1273]
    /\ drag.handle = "se"

\* C25 as stated: a resize with handle 'se' keeps the origin and yields
\* width = clamp(start.width + dx, 48, canvasWidth - x) and height =
\* clamp(start.height + dy, 48, canvasHeight - y), whatever the start rect
C25_SouthEastAnyStart ==
    drag.handle = "se" => rect = SouthEastRect

\* C25 amended: for a start rect whose origin leaves room for the minimum size
\* (0 <= x <= canvasWidth - 48, 0 <= y <= canvasHeight - 48), a resize with
\* handle 'se' keeps the origin and yields width = clamp(start.width + dx, 48,
\* canvasWidth - x) and height = clamp(start.height + dy, 48, canvasHeight - y);
\* on {10,10,100,80} in 900x1273, (+50,+30) gives {10,10,150,110} and
\* (+10000,+10000) gives width 890 and height 1263 at the same origin
C25_SouthEastKeepsOrigin ==
    /\ (drag.handle = "se" /\ OriginFits) => rect = SouthEastRect
    /\ (ExampleDrag /\ drag.deltaX = 50 /\ drag.deltaY = 30)
           => rect = [x |-> 10, y |-> 10, width |-> 150, height |-> 110]
    /\ (ExampleDrag /\ drag.deltaX = 10000 /\ drag.deltaY = 10000)
           => rect = [x |-> 10, y |-> 10, width |-> 900 - 10, height |-> 1273 - 10]

C25_Witness ==
    /\ ExampleDrag /\ drag.deltaX = 10000 /\ drag.deltaY = 10000
    /\ OriginFits
    /\ rect.width = bounds.w - 10 /\ rect.height = bounds.h - 10

(***************************************************************************)
(* C26, C27: the canvas presets.                                           *)
(***************************************************************************)
PresetSizes ==
    { [w |-> DEFAULT_CANVAS_WIDTH, h |-> DEFAULT_CANVAS_HEIGHT],
      [w |-> DEFAULT_CANVAS_HEIGHT, h |-> DEFAULT_CANVAS_WIDTH] }

SizeOf(t) == [w |-> t.canvasWidth, h |-> t.canvasHeight]

\* the step is a setCanvasPreset that changes the active template's size
PresetSwitched ==
    /\ lastHandler' = "setCanvasPreset"
    /\ HasActive
    /\ Len(templates') = Len(templates)
    /\ SizeOf(templates'[ActiveIndex]) # SizeOf(ActiveTemplate)

PortraitToLandscape ==
    /\ PresetSwitched
    /\ SizeOf(ActiveTemplate) = [w |-> 900, h |-> 1273]
    /\ SizeOf(templates'[ActiveIndex]) = [w |-> 1273, h |-> 900]

AtBoundary(direction) ==
    LET i == ElementIndex(ActiveTemplate, selectedElementId)
    IN  IF direction = "forward" THEN i = Len(ActiveTemplate.elements) ELSE i = 1

\* the step is moveSelectedLayer(direction) on an element that can move
LayerMoved(direction) ==
    /\ lastHandler' = LayerHandler(direction)
    /\ HasSelected
    /\ ~AtBoundary(direction)

\* C28: moveSelectedLayer(direction) on a selected element that is not at
\* the boundary in that direction moves it by exactly one index, towards the
\* front for forward and the back for backward, its neighbour taking its
\* place; every other element keeps its index, and every element its fields,
\* so the list is a permutation of the previous one.
C28_LayerMovesByOne ==
    [][\A direction \in Directions :
          LayerMoved(direction) =>
              LET b == ActiveTemplate.elements
                  a == templates'[ActiveIndex].elements
                  i == ElementIndex(ActiveTemplate, selectedElementId)
                  j == IF direction = "forward" THEN i + 1 ELSE i - 1
              IN  /\ Len(templates') = Len(templates)
                  /\ Len(a) = Len(b)
                  /\ a[j] = b[i]
                  /\ a[i] = b[j]
                  /\ \A k \in 1..Len(b) : k \notin {i, j} => a[k] = b[k]
      ]_vars

\* the middle element of three has been moved to the front
C28_Witness ==
    /\ lastHandler = LayerHandler("forward")
    /\ HasSelected
    /\ Len(ActiveTemplate.elements) = 3
    /\ selectedElementId = 2
    /\ ElementIndex(ActiveTemplate, selectedElementId) = 3
    /\ ActiveTemplate.elements[2].id = 4

\* the step is a moveSelectedLayer that cannot move anything: no selection,
\* a selected id the active template does not hold, or an element at the
\* boundary
LayerStays ==
    \E direction \in Directions :
        /\ lastHandler' = LayerHandler(direction)
        /\ IF HasSelected THEN AtBoundary(direction) ELSE TRUE

\* C29: moveSelectedLayer is a no-op at either boundary and for an unknown
\* selected id: the whole template list, the active template's updatedAt
\* included, is unchanged, and no remote push is scheduled.
C29_BoundaryMoveIsNoOp ==
    [][LayerStays =>
          /\ templates' = templates
          /\ pendingTimers' = pendingTimers
          /\ saveTimerRef' = saveTimerRef
      ]_vars

(***************************************************************************)
(* C30: undo and redo.                                                     *)
(***************************************************************************)
\* nothing of the history or the scene changes
HistoryUntouched == UNCHANGED <<historyRef, indexRef, isRestoringRef, canvasObjs, loads>>

\* the step moves the cursor by delta, keeps the entries, raises the
\* restoring flag and asks loadFromJSON for the entry at the new cursor
CursorMoves(delta) ==
    /\ indexRef' = indexRef + delta
    /\ historyRef' = historyRef
    /\ isRestoringRef'
    /\ canvasObjs' = canvasObjs
    /\ loads' = Append(loads, historyRef[indexRef' + 1])

\* the only restoration in flight settles
SoleRestorationDone ==
    /\ Len(loads) = 1
    /\ isRestoringRef
    /\ LoadDone(1)

\* C30: undo() with cursor <= 0 and redo() with cursor >= len(entries) - 1
\* change nothing (entries, cursor, restoring flag, scene); otherwise undo
\* moves the cursor by exactly -1 and redo by exactly +1 with the entries
\* unchanged, and the scene restored is entries[cursor] at the new cursor:
\* that entry is what the call hands to loadFromJSON, and when the
\* restoration settles the canvas shows it.
C30_UndoRedoMoveByOne ==
    /\ [][(Undo /\ indexRef <= 0) => HistoryUntouched]_vars
    /\ [][(Redo /\ indexRef >= Len(historyRef) - 1) => HistoryUntouched]_vars
    /\ [][(Undo /\ indexRef > 0) => CursorMoves(-1)]_vars
    /\ [][(Redo /\ indexRef < Len(historyRef) - 1) => CursorMoves(1)]_vars
    /\ [][\A k \in 1..Len(loads) :
              LoadDone(k) => canvasObjs' = loadFromJSON(loads[k]).objs]_vars
    /\ [][SoleRestorationDone =>
              /\ UNCHANGED <<historyRef, indexRef>>
              /\ ~isRestoringRef'
              /\ Snapshot(canvasObjs') = historyRef[indexRef + 1]]_vars

\* an undo has settled with the cursor on the oldest entry, where a further
\* undo changes nothing, and the canvas shows that entry
C30_Witness ==
    /\ restores >= 1 /\ loads = <<>> /\ ~isRestoringRef
    /\ indexRef = 0 /\ Len(historyRef) >= 2
    /\ Snapshot(canvasObjs) = historyRef[1]
    /\ Snapshot(canvasObjs) # historyRef[2]

(***************************************************************************)
(* C31: every mutation is recorded.                                        *)
(***************************************************************************)
\* a mutation of the scene, from the canvas, the element sidebar or the
\* layer panel, that changes it
SceneMutation ==
    /\ \/ HistEditStep
       \/ \E i \in 1..Len(canvasObjs), value \in SidebarInputs : updateObject(i, value)
       \/ \E index \in 0..(Len(canvasObjs) - 1) : handleMoveUp(index)
       \/ \E index \in 0..(Len(canvasObjs) - 1) : handleMoveDown(index)
    /\ canvasObjs' # canvasObjs

\* C31: every scene mutation made while not restoring (adding, removing or
\* transforming an object, editing a property from the element sidebar,
\* reordering a layer from the layer panel) appends a history entry that
\* captures the scene after that mutation.
C31_EveryMutationRecorded ==
    [][(SceneMutation /\ ~isRestoringRef) =>
          /\ historyRef' # historyRef
          /\ indexRef' = Len(historyRef') - 1
          /\ historyRef'[Len(historyRef')] = Snapshot(canvasObjs')
      ]_vars

(***************************************************************************)
(* C32: the input content is placed once.                                  *)
(***************************************************************************)
\* the boxes autoLayout makes of the input content of the store
InputBoxes == LayoutObjects(autoLayout(pageReady.options, 0))

\* the canvas object is a box autoLayout has made of an input item,
\* whatever id it got
PlacedFromInput(o) ==
    \E k \in 1..Len(InputBoxes) : [o EXCEPT !.id = NoId] = [InputBoxes[k] EXCEPT !.id = NoId]

\* C32: each input image and text is placed on the scene by auto-layout at
\* most once: the scene never holds more boxes made of input items than
\* there are input items, also after the scene was autosaved to the store
\* and the editor opened again in the same session.
C32_InputsPlacedOnce ==
    Cardinality({ i \in 1..Len(canvasObjs) : PlacedFromInput(canvasObjs[i]) })
        <= Len(InputBoxes)

(***************************************************************************)
(* Claims about recovery pruning.                                          *)
(***************************************************************************)
\* the lines of a document's outline: every object at every depth, parents
\* before their members, members in order
RECURSIVE DocOutline(_, _)
DocOutline(d, depth) ==
    <<[depth |-> depth, type |-> d.type, payload |-> d.payload,
       broken |-> UndecodableImage(d)]>>
    \o ConcatAll([i \in 1..Len(d.objects) |-> DocOutline(d.objects[i], depth + 1)])

RECURSIVE SceneOutline(_, _)
SceneOutline(o, depth) ==
    <<[depth |-> depth, type |-> o.type, payload |-> o.payload, broken |-> FALSE]>>
    \o ConcatAll([i \in 1..Len(o.objects) |-> SceneOutline(o.objects[i], depth + 1)])

NotBroken(line) == ~line.broken

ExternalOutline ==
    ConcatAll([i \in 1..Len(externalDoc.objects) |-> DocOutline(externalDoc.objects[i], 0)])

CanvasOutline ==
    ConcatAll([i \in 1..Len(canvasObjs) |-> SceneOutline(canvasObjs[i], 0)])

Recovering ==
    /\ lastCall.from = "external"
    /\ externalDoc.shape = "scene"
    /\ ~loadFromJSON(externalDoc).ok

\* C33: recovery pruning never drops a group and is recursive: after a
\* recovery that loads, the scene is the document without exactly its
\* undecodable images at every depth (every group is kept, a group whose
\* members all fail as an empty group, and all other members keep their
\* order and depth); the load is retried only after a failed first load, and
\* a retry that fails raises its error to the caller and leaves the canvas.
C33_PruningKeepsGroups ==
    /\ lastCall.retried => Recovering
    /\ Recovering =>
          /\ lastCall.retried
          /\ lastCall.loaded => CanvasOutline = SelectSeq(ExternalOutline, NotBroken)
          /\ lastCall.loaded = (lastCall.raised = NoError)
          /\ ~lastCall.loaded => lastCall.raised = RetryLoadError
          /\ (\A i \in 1..Len(ExternalOutline) : ExternalOutline[i].type # "widget")
                => lastCall.loaded

\* the document of the three-deep group and the group of two lost images was
\* recovered: both groups are on the canvas, the second one empty
C33_Witness ==
    /\ lastCall.from = "external"
    /\ lastCall.retried /\ lastCall.loaded
    /\ externalDoc.objects = <<DocDeep, DocAllFail>>
    /\ Len(canvasObjs) = 2
    /\ canvasObjs[2].type = "group" /\ canvasObjs[2].objects = <<>>
    /\ Len(canvasObjs[1].objects) = 2

(***************************************************************************)
(* Claims about the image cells.                                           *)
(***************************************************************************)
\* the cell size the image count calls for
CellSizeFor(n, i, f) ==
    LET gap == Px(LAYOUT_GAP)
        zoneWidth == f.contentWidth
        zoneHeight == Percent(f.contentHeightPx, f.imageRatio)
        rows == (n + 1) \div 2
    IN  IF n = 1 THEN [width |-> zoneWidth, height |-> zoneHeight - gap]
        ELSE IF n = 2 THEN [width |-> (zoneWidth - gap) \div 2, height |-> zoneHeight - gap]
        ELSE IF n = 3
        THEN IF i = 0
             THEN [width |-> (zoneWidth * 6) \div 10 - gap \div 2, height |-> zoneHeight - gap]
             ELSE [width |-> (zoneWidth * 4) \div 10 - gap \div 2,
                   height |-> (zoneHeight - gap * 2) \div 2]
        ELSE [width |-> (zoneWidth - gap) \div 2,
              height |-> (zoneHeight - gap * (rows + 1)) \div rows]

CellsDisjoint(a, b) ==
    \/ a.x + a.width <= b.x \/ b.x + b.width <= a.x
    \/ a.y + a.height <= b.y \/ b.y + b.height <= a.y

\* the image fills its cell in one direction, keeps its proportions (up to
\* the rounding of a unit) and has equal margins on opposite sides
ScaledIntoCell(b, img) ==
    /\ b.left >= b.cell.x /\ b.left + b.width <= b.cell.x + b.cell.width
    /\ b.top >= b.cell.y /\ b.top + b.height <= b.cell.y + b.cell.height
    /\ b.width = b.cell.width \/ b.height = b.cell.height
    /\ b.width * img.height - b.height * img.width \in -(img.width + img.height)..(img.width + img.height)
    /\ (b.cell.width - b.width) - 2 * (b.left - b.cell.x) \in 0..1
    /\ (b.cell.height - b.height) - 2 * (b.top - b.cell.y) \in 0..1

\* C34: the image cells follow the image count (one full-width cell, two
\* equal columns, a 60 : 40 split with two stacked cells on the right, or a
\* grid of two columns and ceil(n / 2) rows), and for every n >= 1 all cells
\* have positive width and height, lie inside the image zone, are pairwise
\* disjoint, and every image is scaled by the smaller of the two ratios and
\* centred, so that it lies inside its cell.
C34_CellsFollowCount ==
    layoutRun.pc \in {"images", "done"} =>
        LET f == layoutRun.frame
            n == Len(layoutRun.options.images)
            images == BlocksOf({"image"})
            zoneTop == Px(CANVAS_PADDING) + HeadingHeight
        IN  \A k \in 1..Len(images) :
              LET b == images[k]
              IN  /\ b.cell.width = CellSizeFor(n, b.index, f).width
                  /\ b.cell.height = CellSizeFor(n, b.index, f).height
                  /\ b.cell.width > 0 /\ b.cell.height > 0
                  /\ b.cell.x >= f.pad /\ b.cell.x + b.cell.width <= f.pad + f.contentWidth
                  /\ b.cell.y >= zoneTop /\ b.cell.y + b.cell.height <= zoneTop + ImageHeight
                  /\ \A j \in 1..Len(images) : j # k => CellsDisjoint(b.cell, images[j].cell)
                  /\ ScaledIntoCell(b, layoutRun.options.images[b.index + 1])

\* the claim of C34 for the image counts whose rows fit the zone
C34_FewImages ==
    layoutRun.pc \in {"images", "done"} /\ Len(layoutRun.options.images) < ManyImages
        => C34_CellsFollowCount

(***************************************************************************)
(* C35: the edges a resize handle does not control.                        *)
(***************************************************************************)
\* the start rect lies inside the canvas and has the minimum size
StartValid ==
    /\ rectIn.x >= 0 /\ rectIn.y >= 0
    /\ rectIn.width >= MIN_ELEMENT_SIZE /\ rectIn.height >= MIN_ELEMENT_SIZE
    /\ rectIn.x + rectIn.width <= bounds.w
    /\ rectIn.y + rectIn.height <= bounds.h

Right(r) == r.x + r.width

Bottom(r) == r.y + r.height

\* C35: for every handle, every pointer delta and every start rect valid
\* for the canvas, a handle containing 'w' keeps the right edge, one
\* containing 'e' keeps x, one containing 'n' keeps the bottom edge, one
\* containing 's' keeps y, a single-axis handle keeps position and size on
\* the other axis, and the result has the minimum size (so the minimum is
\* restored by growing away from the fixed edge).
C35_FixedEdgesStay ==
    (drag.handle \in Handles /\ StartValid) =>
        /\ Includes(drag.handle, "w") => Right(rect) = Right(rectIn)
        /\ Includes(drag.handle, "e") => rect.x = rectIn.x
        /\ Includes(drag.handle, "n") => Bottom(rect) = Bottom(rectIn)
        /\ Includes(drag.handle, "s") => rect.y = rectIn.y
        /\ drag.handle \in {"n", "s"} => rect.x = rectIn.x /\ rect.width = rectIn.width
        /\ drag.handle \in {"e", "w"} => rect.y = rectIn.y /\ rect.height = rectIn.height
        /\ rect.width >= MIN_ELEMENT_SIZE /\ rect.height >= MIN_ELEMENT_SIZE

\* the north-west handle of a valid rect was dragged far past the opposite
\* corner: the rect has the minimum size and ends at its old right and
\* bottom edge
C35_Witness ==
    /\ drag = [handle |-> "nw", deltaX |-> 10000, deltaY |-> 10000]
    /\ StartValid
    /\ rect.width = MIN_ELEMENT_SIZE /\ rect.height = MIN_ELEMENT_SIZE
    /\ rect.x = Right(rectIn) - MIN_ELEMENT_SIZE
    /\ rect.y = Bottom(rectIn) - MIN_ELEMENT_SIZE

(***************************************************************************)
(* C36: a restoration whose load fails.                                    *)
(***************************************************************************)
CursorOnScene(entries, index, objs) ==
    /\ index \in 0..(Len(entries) - 1)
    /\ entries[index + 1] = Snapshot(objs)

CommitStep ==
    \/ HistAddText
    \/ HistAddImage
    \/ \E i \in 1..Len(canvasObjs) : HistRemove(i)

\* C36: if the scene load of the only outstanding undo or redo fails, then
\* afterwards the restoring flag is cleared and the cursor points at the
\* entry of the displayed scene, and commits made while no restoration is
\* outstanding are recorded: the cursor is on the committed scene.
C36_FailedRestoreLeavesHistoryUsable ==
    /\ [][ (Len(loads) = 1 /\ isRestoringRef /\ LoadFailed(1))
             => (~isRestoringRef' /\ CursorOnScene(historyRef', indexRef', canvasObjs')) ]_vars
    /\ [][ (loads = <<>> /\ CommitStep)
             => CursorOnScene(historyRef', indexRef', canvasObjs') ]_vars

(***************************************************************************)
(* C37: the scene after overlapping restorations.                          *)
(***************************************************************************)
\* C37: once every outstanding undo / redo restoration has completed, in
\* whatever order the loads finished, the displayed scene is the scene of
\* the entry under the cursor.
C37_SceneFollowsCursor ==
    (mounted /\ restores > 0 /\ loads = <<>>) =>
        /\ indexRef \in 0..(Len(historyRef) - 1)
        /\ canvasObjs = loadFromJSON(historyRef[indexRef + 1]).objs

\* on a fresh canvas two texts were added and two undos were issued at once;
\* the load of the older entry finished first, the load of the newer one
\* last: its reload was committed over the redo branch, and the scene (one
\* text) is the entry under the cursor
C37_Witness ==
    /\ mounted /\ loads = <<>>
    /\ restores = 2 /\ edits = 2 /\ nextId = 3
    /\ Len(historyRef) = 2 /\ indexRef = 1
    /\ canvasObjs = <<NewText(1)>>

(***************************************************************************)
(* C38: the sync status 'synced'.                                          *)
(***************************************************************************)
\* C38: whenever the sync status is 'synced', no local mutation waits to be
\* pushed: no push timer is armed and the local template list serializes
\* to the content last pushed to or last received from the remote store.
C38_SyncedIsTruthful ==
    syncState = "synced" =>
        /\ pendingTimers = <<>>
        /\ Serialized(templates) = lastCloudSerializedRef

(***************************************************************************)
(* C39: no write before the first snapshot.                                *)
(***************************************************************************)
\* lastCloudSerializedRef.current is null until the first snapshot arrives
\* (or a push resolves)
NothingReceived == lastCloudSerializedRef = NullSerialized

\* C39: the studio never writes to the remote store before it has received
\* a remote snapshot: no push is handed to the store while nothing has been
\* received, also after a subscription error.
C39_NoWriteBeforeSnapshot ==
    [][ (\E k \in 1..Len(pendingTimers), accepted \in BOOLEAN : SaveTimerFires(k, accepted))
          => ~NothingReceived ]_vars

(***************************************************************************)
(* C40: sanitizing a template the studio made.                             *)
(***************************************************************************)
\* the fields of an element the claim is about
GeometryAndStyle(e) ==
    [x |-> e.x, y |-> e.y, width |-> e.width, height |-> e.height, kind |-> e.kind,
     borderWidth |-> e.borderWidth, borderStyle |-> e.borderStyle,
     borderColor |-> e.borderColor, opacity |-> e.opacity, radius |-> e.radius]

\* C40: for every template reachable through studio edits, sanitizeTemplate
\* returns the same canvas size and, for every element, the same rect, kind,
\* border width, style and colour, opacity and radius.
C40_SanitizePreservesValid ==
    styled.pc = "sanitized" =>
        /\ styled.sanitizedCanvas = styled.canvas
        /\ GeometryAndStyle(styled.sanitized) = GeometryAndStyle(styled.element)

\* the claim of C40 for elements with a border and rounded corners
C40_PreservedWhenNonZero ==
    (styled.pc = "sanitized" /\ styled.element.borderWidth # 0 /\ styled.element.radius # 0)
        => C40_SanitizePreservesValid

=============================================================================
